---- MODULE Spec2Model ----
(***************************************************************************)
(* Polymorphic dependency resolution of antidote.                          *)
(*                                                                         *)
(*  - Interface Registry: InterfaceProvider / ImplementationNode           *)
(*    (extension/predicates/_provider.py), specification Spec.             *)
(*  - Merge Registry: LazyDispatch (_internal/dispatch.py), specification  *)
(*    SpecDispatch, with its callers as concurrent threads.                *)
(***************************************************************************)
EXTENDS Integers, Sequences, FiniteSets, TLC

VARIABLES
    implementations,    \* InterfaceProvider.__implementations: interface -> node list
    registered,         \* number of register_implementation calls made so far
    weight_class,       \* the PredicateWeight class every predicate of this world uses
    last,               \* the last call on the provider and its outcome
    unweighted,         \* dependencies whose registration met a weight() of None
    weight_calls,       \* the weight() calls of the last call: <<dependency, index>>
    accepted,           \* <<interface, dependency>> of the calls that took effect
    functions,          \* LazyDispatch.__functions: type -> function id (0 is None)
    lazy_registrations, \* LazyDispatch.__lazy_registrations, appended on the right
    lock,               \* LazyDispatch.__lock: the thread holding it, 0 when free
    pc,                 \* per thread: its position in register / get
    frame,              \* per thread: the locals of the call in progress
    gets,               \* number of get calls begun so far
    declared,           \* the return type hint of every function passed to register
    resolved,           \* functions in the order get computed their key
    reported,           \* functions get raised the duplicate RuntimeError for
    provider            \* the InterfaceProvider that clone returned, once it has

provider_vars ==
    <<implementations, registered, weight_class, last, unweighted, weight_calls,
      accepted>>
dispatch_vars ==
    <<functions, lazy_registrations, lock, pc, frame, gets, declared, resolved, reported>>
vars == <<implementations, registered, weight_class, last, unweighted, weight_calls,
          accepted,
          functions, lazy_registrations, lock, pc, frame, gets, declared, resolved, reported,
          provider>>

-----------------------------------------------------------------------------
(* Bounds of the model *)

\* register_implementation calls in one behaviour
MaxRegistrations == 3
\* largest value a custom Weight predicate yields
MaxWeight == 2
\* LazyDispatch.register calls in one behaviour
MaxRegisters == 3
\* LazyDispatch.get calls in one behaviour
MaxGets == 2

-----------------------------------------------------------------------------
(* Weights: predicate.py *)

\* Python's None, as a weight
None == [cls |-> "None", value |-> 0]
\* the NeutralWeight singleton
Neutral == [cls |-> "NeutralWeight", value |-> 0]
\* a custom PredicateWeight as in the PredicateWeight docstring
Weight(v) == [cls |-> "Weight", value |-> v]

\* NeutralWeight.__lt__ / Weight.__lt__
WeightLt(self, other) ==
    IF self.cls = "NeutralWeight" THEN FALSE ELSE self.value < other.value

\* NeutralWeight.__add__ / Weight.__add__
WeightAdd(self, other) ==
    IF self.cls = "NeutralWeight" THEN self ELSE Weight(self.value + other.value)

-----------------------------------------------------------------------------
(* Predicates and constraints *)

Interfaces == {"I1", "I2"}

\* qualifier objects, named by their id()
x == 1
y == 2

\* QualifiedBy.__init__: the qualifiers sorted by id, without duplicates
RECURSIVE SortedById(_)
SortedById(ids) ==
    IF ids = {} THEN <<>>
    ELSE LET m == CHOOSE q \in ids : \A r \in ids : q <= r
         IN <<m>> \o SortedById(ids \ {m})

Range(s) == {s[k] : k \in 1..Len(s)}

\* a QualifiedBy whose weight() is the number of its qualifiers
QualifiedByCounted(qualifiers) ==
    [tpe |-> "QualifiedBy", qualifiers |-> SortedById(Range(qualifiers)),
     weight |-> Weight(Cardinality(Range(qualifiers)))]

\* a QualifiedBy instance; as a predicate its weight() is NeutralWeight()
QualifiedBy(qualifiers) ==
    [tpe |-> "QualifiedBy", qualifiers |-> SortedById(Range(qualifiers)), weight |-> Neutral]

\* an instance of a user predicate class tpe whose weight() returns w
Pred(tpe, w) == [tpe |-> tpe, qualifiers |-> <<>>, weight |-> w]

\* the NotQualified constraint of the PredicateConstraint docstring
NotQualified == [tpe |-> "QualifiedBy", kind |-> "NotQualified", qualifiers |-> <<>>]

\* QualifiedBy used as a constraint: the pair create_constraints builds for it
QualifiedByConstraint(qualifiers) ==
    [tpe |-> "QualifiedBy", kind |-> "QualifiedBy",
     qualifiers |-> SortedById(Range(qualifiers))]

\* a user constraint on predicates of class tpe: evaluate(p) is "p is None"
IsNone(tpe) == [tpe |-> tpe, kind |-> "NotQualified", qualifiers |-> <<>>]

\* the scan comparing the qualifiers index by index, j never running ahead
QualifiedByScanPairwise(mine, theirs, i, j) ==
    \A k \in 1..Len(mine) : k <= Len(theirs) /\ mine[k] = theirs[k]

\* QualifiedBy.evaluate, the two-index scan over the sorted qualifiers
RECURSIVE QualifiedByScan(_, _, _, _)
QualifiedByScan(mine, theirs, i, j) ==
    IF i < Len(mine) /\ j < Len(theirs)
    THEN IF mine[i + 1] = theirs[j + 1]
         THEN QualifiedByScan(mine, theirs, i + 1, j + 1)
         ELSE QualifiedByScan(mine, theirs, i, j + 1)
    ELSE i = Len(mine)

\* QualifiedBy.evaluate asking for one of the qualifiers only
EvaluateOneOf(constraint, has, predicate) ==
    IF constraint.kind = "NotQualified" THEN ~has
    ELSE has /\ Range(constraint.qualifiers) \cap Range(predicate.qualifiers) # {}

\* QualifiedBy.one_of(*qualifiers): a QualifiedByOneOf constraint
QualifiedByOneOf(qualifiers) ==
    [tpe |-> "QualifiedBy", kind |-> "QualifiedByOneOf",
     qualifiers |-> SortedById(Range(qualifiers))]

\* QualifiedByOneOf.evaluate, the scan over the two lists sorted by id
RECURSIVE QualifiedByOneOfScan(_, _, _, _)
QualifiedByOneOfScan(mine, theirs, i, j) ==
    IF i < Len(mine) /\ j < Len(theirs)
    THEN IF mine[i + 1] = theirs[j + 1] THEN TRUE
         ELSE IF mine[i + 1] < theirs[j + 1]
              THEN QualifiedByOneOfScan(mine, theirs, i + 1, j)
              ELSE QualifiedByOneOfScan(mine, theirs, i, j + 1)
    ELSE FALSE

\* constraint.evaluate(predicate); has is FALSE when predicate is None
Evaluate(constraint, has, predicate) ==
    IF constraint.kind = "NotQualified" THEN ~has
    ELSE IF ~has THEN FALSE
    ELSE IF constraint.kind = "QualifiedByOneOf"
    THEN QualifiedByOneOfScan(constraint.qualifiers, predicate.qualifiers, 0, 0)
    ELSE IF Len(constraint.qualifiers) > Len(predicate.qualifiers) THEN FALSE
    ELSE QualifiedByScan(constraint.qualifiers, predicate.qualifiers, 0, 0)

\* the predicate lists a caller passes in a world of NeutralWeight
NeutralPredicateLists ==
    { <<>>,
      <<QualifiedBy(<<x>>)>>,
      <<QualifiedBy(<<y, x>>)>>,
      <<Pred("InCloud", None), QualifiedBy(<<y>>)>>,
      <<Pred("InCloud", Neutral), QualifiedBy(<<y>>)>> }

\* the predicate lists a caller passes in a world of custom Weight
WeightPredicateLists ==
    { <<>>,
      <<Pred("Rank", Weight(1)), Pred("InCloud", None)>>,
      <<Pred("Rank", Weight(1)), Pred("InCloud", Weight(1))>> }
    \cup { <<Pred("Rank", Weight(w))>> : w \in 1..MaxWeight }

PredicateLists(cls) ==
    IF cls = "NeutralWeight" THEN NeutralPredicateLists ELSE WeightPredicateLists

\* the constraint lists of the queries in a world of NeutralWeight
NeutralConstraintLists ==
    { <<>>,
      <<QualifiedByConstraint(<<x>>)>>,
      <<QualifiedByConstraint(<<x, y>>)>>,
      <<NotQualified>>,
      <<QualifiedByConstraint(<<y>>), IsNone("InCloud")>> }

\* the constraint lists of the queries in a world of custom Weight
WeightConstraintLists ==
    { <<>>, <<IsNone("InCloud")>>, <<IsNone("Rank")>> }

ConstraintLists(cls) ==
    IF cls = "NeutralWeight" THEN NeutralConstraintLists ELSE WeightConstraintLists

-----------------------------------------------------------------------------
(* ImplementationNode *)

ImplementationNode(dependency, predicates, weight) ==
    [dependency |-> dependency, predicates |-> predicates, weight |-> weight,
     same_weight_as_left |-> FALSE]

\* ImplementationNode.__lt__
NodeLt(self, other) ==
    IF other.weight = None THEN FALSE
    ELSE IF self.weight = None THEN other.weight # None
    ELSE WeightLt(self.weight, other.weight)

\* match returning True as soon as one constraint evaluates true
MatchAny(self, constraints) ==
    \E k \in 1..Len(constraints) :
        LET tpe == constraints[k].tpe
            of_type == {n \in 1..Len(self.predicates) : self.predicates[n].tpe = tpe}
        IN /\ \A n \in of_type : Evaluate(constraints[k], TRUE, self.predicates[n])
           /\ of_type = {} => Evaluate(constraints[k], FALSE, None)

\* ImplementationNode.match
Match(self, constraints) ==
    \A k \in 1..Len(constraints) :
        LET tpe == constraints[k].tpe
            of_type == {n \in 1..Len(self.predicates) : self.predicates[n].tpe = tpe}
        IN /\ \A n \in of_type : Evaluate(constraints[k], TRUE, self.predicates[n])
           /\ of_type = {} => Evaluate(constraints[k], FALSE, None)

-----------------------------------------------------------------------------
(* InterfaceProvider *)

\* bisect.bisect_right(a, node, lo, hi) with ImplementationNode.__lt__
RECURSIVE BisectRight(_, _, _, _)
BisectRight(a, node, lo, hi) ==
    IF lo < hi
    THEN LET mid == (lo + hi) \div 2
         IN IF NodeLt(node, a[mid + 1])
            THEN BisectRight(a, node, lo, mid)
            ELSE BisectRight(a, node, mid + 1, hi)
    ELSE lo

\* list.insert(pos, node), pos counted from 0
Insert(a, pos, node) ==
    SubSeq(a, 1, pos) \o <<node>> \o SubSeq(a, pos + 1, Len(a))

\* the weight loop of register_implementation over predicates[k..]: None as
\* soon as one weight() is None, else the sum
RECURSIVE SumWeights(_, _, _)
SumWeights(predicates, k, weight) ==
    IF k > Len(predicates) THEN weight
    ELSE IF predicates[k].weight = None THEN None
    ELSE SumWeights(predicates, k + 1, WeightAdd(weight, predicates[k].weight))

\* weight() called on every predicate before any is looked at
WeighedAll(dependency, predicates, k) ==
    [n \in 1..Len(predicates) |-> <<dependency, n>>]

\* the weight() calls of register_implementation from predicates[k] on, in
\* order: the loop returns at the first weight() that is None
RECURSIVE Weighed(_, _, _)
Weighed(dependency, predicates, k) ==
    IF k > Len(predicates) THEN <<>>
    ELSE <<<<dependency, k>>>> \o
         (IF predicates[k].weight = None THEN <<>>
          ELSE Weighed(dependency, predicates, k + 1))

\* the early return taken for the first predicate only
ReturnsOnFirst(predicates) ==
    Len(predicates) > 0 /\ predicates[1].weight = None

\* TRUE when register_implementation returns early: some weight() is None
Returns(predicates) ==
    /\ Len(predicates) > 0
    /\ \/ predicates[1].weight = None
       \/ SumWeights(predicates, 2, predicates[1].weight) = None

\* NeutralWeight() given to a node without predicates
NodeWeightNeutral(predicates) ==
    IF Len(predicates) > 0
    THEN SumWeights(predicates, 2, predicates[1].weight)
    ELSE Neutral

\* the weight given to the node
NodeWeight(predicates) ==
    IF Len(predicates) > 0
    THEN SumWeights(predicates, 2, predicates[1].weight)
    ELSE None

\* list.append in place of the bisection
PositionAppend(nodes, node) == Len(nodes)

\* bisect.bisect_left in place of bisect.bisect_right
RECURSIVE BisectLeft(_, _, _, _)
BisectLeft(a, node, lo, hi) ==
    IF lo < hi
    THEN LET mid == (lo + hi) \div 2
         IN IF NodeLt(a[mid + 1], node)
            THEN BisectLeft(a, node, mid + 1, hi)
            ELSE BisectLeft(a, node, lo, mid)
    ELSE lo

PositionBisectLeft(nodes, node) == BisectLeft(nodes, node, 0, Len(nodes))

\* the position register_implementation inserts the node at
Position(nodes, node) == BisectRight(nodes, node, 0, Len(nodes))

\* the flag without its negation
SameWeightAsLeftStrict(nodes, pos, node) == pos > 0 /\ NodeLt(nodes[pos], node)

\* the flag without its comparison
SameWeightAsLeftAny(nodes, pos, node) == pos > 0

\* the flag taken from the node that was the last of the list before the insert
SameWeightAsLeftOfLast(nodes, pos, node) ==
    Len(nodes) > 0 /\ ~NodeLt(nodes[Len(nodes)], node)

\* node.same_weight_as_left as register_implementation sets it
SameWeightAsLeft(nodes, pos, node) == pos > 0 /\ ~NodeLt(nodes[pos], node)

\* the list replaced by a list of the new node alone
InsertedAlone(nodes, node) == <<node>>

\* the list of the interface after register_implementation's insertion
Inserted(nodes, node) ==
    LET pos == Position(nodes, node)
    IN Insert(nodes, pos,
              [node EXCEPT !.same_weight_as_left = SameWeightAsLeft(nodes, pos, node)])

\* outcomes of a call
Returned(value) == [kind |-> "return", value |-> value, error |-> ""]
Raised(error) == [kind |-> "raise", value |-> <<>>, error |-> error]
\* maybe_provide returning None
NotProvided == [kind |-> "None", value |-> <<>>, error |-> ""]

\* the while loop of a single query looking at the next node only
SameWeightChainOnce(nodes, constraints, impl, left) ==
    IF nodes[left].same_weight_as_left /\ left > 1
          /\ Match(nodes[left - 1], constraints)
    THEN Raised("DuplicateDependencyError")
    ELSE Returned(<<nodes[impl].dependency>>)

\* the while loop of a single query: impl matched, left_impl is at index left
RECURSIVE SameWeightChain(_, _, _, _)
SameWeightChain(nodes, constraints, impl, left) ==
    IF nodes[left].same_weight_as_left
    THEN IF left = 1 THEN Raised("StopIteration")
         ELSE IF Match(nodes[left - 1], constraints)
              THEN Raised("DuplicateDependencyError")
              ELSE SameWeightChain(nodes, constraints, impl, left - 1)
    ELSE Returned(<<nodes[impl].dependency>>)

\* the for loop of a single query returning its first match unchecked
RECURSIVE ProvideSingleFirst(_, _, _)
ProvideSingleFirst(nodes, constraints, k) ==
    IF k = 0 THEN NotProvided
    ELSE IF Match(nodes[k], constraints)
         THEN Returned(<<nodes[k].dependency>>)
         ELSE ProvideSingleFirst(nodes, constraints, k - 1)

\* the for loop of a single query over reversed(nodes), from index k down
RECURSIVE ProvideSingle(_, _, _)
ProvideSingle(nodes, constraints, k) ==
    IF k = 0 THEN NotProvided
    ELSE IF Match(nodes[k], constraints)
         THEN SameWeightChain(nodes, constraints, k, k)
         ELSE ProvideSingle(nodes, constraints, k - 1)

\* the for loop of an all query over the nodes in the order of the list
ProvideAllAscending(nodes, constraints, k) ==
    LET matching == SelectSeq(SubSeq(nodes, 1, k), LAMBDA n : Match(n, constraints))
    IN [n \in 1..Len(matching) |-> matching[n].dependency]

\* the for loop of an all query over reversed(nodes), from index k down
RECURSIVE ProvideAll(_, _, _)
ProvideAll(nodes, constraints, k) ==
    IF k = 0 THEN <<>>
    ELSE (IF Match(nodes[k], constraints) THEN <<nodes[k].dependency>> ELSE <<>>)
         \o ProvideAll(nodes, constraints, k - 1)

\* maybe_provide without its "except KeyError"
MaybeProvideKeyError(impls, interface, constraints, all) ==
    IF interface \notin DOMAIN impls THEN Raised("KeyError")
    ELSE IF all
         THEN Returned(ProvideAll(impls[interface], constraints, Len(impls[interface])))
         ELSE ProvideSingle(impls[interface], constraints, Len(impls[interface]))

\* maybe_provide taking the branch of a single query whatever dependency.all
MaybeProvideSingle(impls, interface, constraints, all) ==
    IF interface \notin DOMAIN impls THEN NotProvided
    ELSE ProvideSingle(impls[interface], constraints, Len(impls[interface]))

\* InterfaceProvider.maybe_provide on a Query
MaybeProvide(impls, interface, constraints, all) ==
    IF interface \notin DOMAIN impls THEN NotProvided
    ELSE IF all
         THEN Returned(ProvideAll(impls[interface], constraints, Len(impls[interface])))
         ELSE ProvideSingle(impls[interface], constraints, Len(impls[interface]))

\* InterfaceProvider.maybe_provide on a dependency that is not a Query: the
\* interface itself is turned into Query(interface, list(), all=False)
MaybeProvideInterface(impls, interface) ==
    MaybeProvide(impls, interface, <<>>, FALSE)

\* the record kept of the last call
Call(op, interface, dependency, predicates, constraints, all, outcome) ==
    [op |-> op, interface |-> interface, dependency |-> dependency,
     predicates |-> predicates, constraints |-> constraints, all |-> all,
     outcome |-> outcome]

NoCall == Call("none", "", 0, <<>>, <<>>, FALSE, NotProvided)

\* the calls that took effect once register_implementation is over: the
\* call counts if it returned and no weight() of its predicates was None
Accepted(calls, interface, dependency, predicates, outcome) ==
    IF /\ outcome.kind = "return"
       /\ \A k \in 1..Len(predicates) : predicates[k].weight # None
    THEN calls \cup {<<interface, dependency>>}
    ELSE calls

\* the calls that took effect once register(interface) is over: those for
\* the interface are forgotten
Forgotten(calls, interface) == {c \in calls : c[1] # interface}

\* dict.setdefault(interface, list()) in place of the assignment
RegisterKeep(interface) ==
    /\ implementations' =
          [i \in DOMAIN implementations \cup {interface} |->
              IF i \in DOMAIN implementations THEN implementations[i] ELSE <<>>]
    /\ last' = Call("register", interface, 0, <<>>, <<>>, FALSE, Returned(<<>>))
    /\ weight_calls' = <<>>
    /\ accepted' = Forgotten(accepted, interface)
    /\ UNCHANGED <<registered, weight_class, unweighted>>

\* InterfaceProvider.register
Register(interface) ==
    /\ implementations' =
          [i \in DOMAIN implementations \cup {interface} |->
              IF i = interface THEN <<>> ELSE implementations[i]]
    /\ last' = Call("register", interface, 0, <<>>, <<>>, FALSE, Returned(<<>>))
    /\ weight_calls' = <<>>
    /\ accepted' = Forgotten(accepted, interface)
    /\ UNCHANGED <<registered, weight_class, unweighted>>

\* InterfaceProvider.register_implementation, for a new dependency
RegisterImplementation(interface, predicates) ==
    LET dependency == registered + 1
        node == ImplementationNode(dependency, predicates, NodeWeight(predicates))
    IN /\ registered < MaxRegistrations
       /\ registered' = dependency
       /\ unweighted' =
             IF \E k \in 1..Len(predicates) : predicates[k].weight = None
             THEN unweighted \cup {dependency} ELSE unweighted
       /\ weight_calls' = Weighed(dependency, predicates, 1)
       /\ IF Returns(predicates)
          THEN /\ UNCHANGED implementations
               /\ last' = Call("register_implementation", interface, dependency,
                               predicates, <<>>, FALSE, Returned(<<>>))
          ELSE IF interface \notin DOMAIN implementations
          THEN /\ UNCHANGED implementations
               /\ last' = Call("register_implementation", interface, dependency,
                               predicates, <<>>, FALSE, Raised("KeyError"))
          ELSE /\ implementations' =
                    [implementations EXCEPT
                        ![interface] = Inserted(implementations[interface], node)]
               /\ last' = Call("register_implementation", interface, dependency,
                               predicates, <<>>, FALSE, Returned(<<>>))
       /\ accepted' = Accepted(accepted, interface, dependency, predicates,
                               IF ~Returns(predicates)
                                     /\ interface \notin DOMAIN implementations
                               THEN Raised("KeyError") ELSE Returned(<<>>))
       /\ UNCHANGED weight_class

\* list.reverse() on the list of the interface, in place of reversed()
RECURSIVE Reverse(_)
Reverse(a) == IF a = <<>> THEN <<>> ELSE Reverse(Tail(a)) \o <<Head(a)>>

AfterQueryReversed(impls, interface) ==
    IF interface \in DOMAIN impls
    THEN [impls EXCEPT ![interface] = Reverse(impls[interface])]
    ELSE impls

\* __implementations once maybe_provide is over: reversed() gives an iterator
\* and the loops only read the nodes
AfterQuery(impls, interface) == impls

\* weight() called again on the predicates of every node of the interface
RECURSIVE WeighedInQueryAgain(_, _)
WeighedInQueryAgain(impls, interface) ==
    IF interface \notin DOMAIN impls \/ impls[interface] = <<>> THEN <<>>
    ELSE Weighed(Head(impls[interface]).dependency,
                 Head(impls[interface]).predicates, 1)
         \o WeighedInQueryAgain([impls EXCEPT ![interface] = Tail(@)], interface)

\* the weight() calls of maybe_provide: match and the loops read node.weight
\* and same_weight_as_left, they call no weight()
WeighedInQuery(impls, interface) == <<>>

\* no clone of the provider was made yet. Of a clone, implementations is its
\* __implementations and same the interfaces whose list is the very list
\* object of the original
NoClone == [cloned |-> FALSE, implementations |-> <<>>, same |-> {}]

\* InterfaceProvider.maybe_provide on a Query(interface, constraints, all)
Provide(interface, constraints, all) ==
    /\ last' = Call("maybe_provide", interface, 0, <<>>, constraints, all,
                    MaybeProvide(implementations, interface, constraints, all))
    /\ implementations' = AfterQuery(implementations, interface)
    /\ weight_calls' = WeighedInQuery(implementations, interface)
    /\ UNCHANGED accepted
    /\ UNCHANGED <<registered, weight_class, unweighted>>

InitProvider ==
    /\ implementations = <<>>
    /\ registered = 0
    /\ last = NoCall
    /\ unweighted = {}
    /\ weight_calls = <<>>
    /\ accepted = {}
    /\ provider = NoClone

-----------------------------------------------------------------------------
(* LazyDispatch: _internal/dispatch.py *)

\* the threads calling into one LazyDispatch
Threads == {1, 2}

\* the predicate (or constraint) classes merge functions are declared for
Types == {"T1", "T2"}

\* what the return type hint of a merge function can be: a class of Types,
\* or a class that is no Predicate, for which the key extractor raises
ReturnTypes == Types \cup {"int"}

\* outcomes of a LazyDispatch call; function 0 is None
Pending == [kind |-> "pending", value |-> 0, error |-> ""]
Gave(func) == [kind |-> "return", value |-> func, error |-> ""]
Failed(error) == [kind |-> "raise", value |-> 0, error |-> error]

\* the locals of a call
Frame(op, item, func, before, queue) ==
    [op |-> op, item |-> item, func |-> func, tpe |-> "",
     before |-> before, queue |-> queue, outcome |-> Pending]

NoFrame == Frame("none", "", 0, {}, <<>>)

\* the positions inside the with block of get
DrainSteps == {"get_while", "get_key", "get_store"}

\* the functions whose register call has returned
Completed ==
    {f \in DOMAIN declared :
        \A t \in Threads :
            ~(frame[t].op = "register" /\ frame[t].func = f /\ pc[t] # "idle")}

\* threading.Lock acquired without blocking on its holder
LockFreeAlways == TRUE

\* threading.Lock: acquire blocks while another thread holds it
LockFree == lock = 0

\* the lock kept by the thread when the loop ends
LockKept(t) == t

\* the holder of the lock once the with block of get is left: nobody
LockAfterWith(t) == 0

\* the lock kept by the thread whose get raises
LockAfterRaiseKept(t) == t

\* the holder of the lock once an exception has left the with block: nobody
LockAfterRaise(t) == 0

\* deque.popleft in place of deque.pop
PopLeft(queue) == 1

\* deque.pop: the index of the entry taken, the rightmost
Pop(queue) == Len(queue)

\* the deque without the entry at index k
Without(queue, k) == SubSeq(queue, 1, k - 1) \o SubSeq(queue, k + 1, Len(queue))

\* the loop left after the first entry
DrainedAfterOne(t) == lazy_registrations = <<>> \/ frame[t].func # 0

\* "while self.__lazy_registrations" is over
Drained(t) == lazy_registrations = <<>>

\* no check of the previous function
PreviousIgnored(tpe) == 0

\* previous = self.__functions.get(tpe)
Previous(tpe) == functions[tpe]

\* key(func): get_return_type raises TypeError unless the hint is a Predicate
KeyRaises(func) == declared[func] \notin Types

\* register(key, func) is called with a new function of the given return type
RegisterCall(t, tpe) ==
    LET func == Len(declared) + 1
    IN /\ pc[t] = "idle"
       /\ Len(declared) < MaxRegisters
       /\ declared' = Append(declared, tpe)
       /\ frame' = [frame EXCEPT ![t] = Frame("register", "", func, {}, <<>>)]
       /\ pc' = [pc EXCEPT ![t] = "register_lock"]
       /\ UNCHANGED <<functions, lazy_registrations, lock, gets, resolved, reported>>

\* register: with self.__lock
RegisterAcquire(t) ==
    /\ pc[t] = "register_lock"
    /\ LockFree
    /\ lock' = t
    /\ pc' = [pc EXCEPT ![t] = "register_append"]
    /\ UNCHANGED <<functions, lazy_registrations, frame, gets, declared, resolved, reported>>

\* register: the append, and the end of the with block
RegisterAppend(t) ==
    /\ pc[t] = "register_append"
    /\ lazy_registrations' = Append(lazy_registrations, frame[t].func)
    /\ lock' = 0
    /\ frame' = [frame EXCEPT ![t].outcome = Gave(0)]
    /\ pc' = [pc EXCEPT ![t] = "idle"]
    /\ UNCHANGED <<functions, gets, declared, resolved, reported>>

\* get(item) is called
GetCall(t, item) ==
    /\ pc[t] = "idle"
    /\ gets < MaxGets
    /\ gets' = gets + 1
    /\ frame' = [frame EXCEPT ![t] = Frame("get", item, 0, Completed, lazy_registrations)]
    /\ pc' = [pc EXCEPT ![t] = "get_lock"]
    /\ UNCHANGED <<functions, lazy_registrations, lock, declared, resolved, reported>>

\* get: with self.__lock
GetAcquire(t) ==
    /\ pc[t] = "get_lock"
    /\ LockFree
    /\ lock' = t
    /\ pc' = [pc EXCEPT ![t] = "get_while"]
    /\ UNCHANGED <<functions, lazy_registrations, frame, gets, declared, resolved, reported>>

\* get: the while test; either the pop of the next entry, or the end of the
\* loop and of the with block
GetWhile(t) ==
    /\ pc[t] = "get_while"
    /\ IF Drained(t)
       THEN /\ lock' = LockAfterWith(t)
            /\ pc' = [pc EXCEPT ![t] = "get_return"]
            /\ UNCHANGED <<lazy_registrations, frame>>
       ELSE LET k == Pop(lazy_registrations)
            IN /\ frame' = [frame EXCEPT ![t].func = lazy_registrations[k]]
               /\ lazy_registrations' = Without(lazy_registrations, k)
               /\ pc' = [pc EXCEPT ![t] = "get_key"]
               /\ UNCHANGED lock
    /\ UNCHANGED <<functions, gets, declared, resolved, reported>>

\* get: tpe = key(func), previous = functions.get(tpe) and the raise; an
\* exception leaves the with block
GetKey(t) ==
    LET func == frame[t].func
    IN /\ pc[t] = "get_key"
       /\ resolved' = Append(resolved, func)
       /\ IF KeyRaises(func)
          THEN /\ frame' = [frame EXCEPT ![t].outcome = Failed("TypeError")]
               /\ lock' = LockAfterRaise(t)
               /\ pc' = [pc EXCEPT ![t] = "idle"]
               /\ UNCHANGED reported
          ELSE IF Previous(declared[func]) # 0
          THEN /\ frame' = [frame EXCEPT ![t].tpe = declared[func],
                                         ![t].outcome = Failed("RuntimeError")]
               /\ lock' = LockAfterRaise(t)
               /\ pc' = [pc EXCEPT ![t] = "idle"]
               /\ reported' = reported \cup {func}
          ELSE /\ frame' = [frame EXCEPT ![t].tpe = declared[func]]
               /\ pc' = [pc EXCEPT ![t] = "get_store"]
               /\ UNCHANGED <<lock, reported>>
       /\ UNCHANGED <<functions, lazy_registrations, gets, declared>>

\* a new dict holding the function alone
StoredAlone(fns, tpe, func) ==
    [other \in DOMAIN fns |-> IF other = tpe THEN func ELSE 0]

\* self.__functions after self.__functions[tpe] = func
Stored(fns, tpe, func) == [fns EXCEPT ![tpe] = func]

\* get: self.__functions[key(func)] = func
GetStore(t) ==
    /\ pc[t] = "get_store"
    /\ functions' = Stored(functions, declared[frame[t].func], frame[t].func)
    /\ pc' = [pc EXCEPT ![t] = "get_while"]
    /\ UNCHANGED <<lazy_registrations, lock, frame, gets, declared, resolved, reported>>

\* get: return self.__functions.get(item), after the with block
GetReturn(t) ==
    /\ pc[t] = "get_return"
    /\ frame' = [frame EXCEPT ![t].outcome = Gave(functions[frame[t].item])]
    /\ pc' = [pc EXCEPT ![t] = "idle"]
    /\ UNCHANGED <<functions, lazy_registrations, lock, gets, declared, resolved, reported>>

InitDispatch ==
    /\ functions = [tpe \in Types |-> 0]
    /\ lazy_registrations = <<>>
    /\ lock = 0
    /\ pc = [t \in Threads |-> "idle"]
    /\ frame = [t \in Threads |-> NoFrame]
    /\ gets = 0
    /\ declared = <<>>
    /\ resolved = <<>>
    /\ reported = {}

Init ==
    /\ InitProvider
    /\ weight_class \in {"NeutralWeight", "Weight"}
    /\ InitDispatch

Next ==
    \/ \E interface \in Interfaces :
          Register(interface) /\ UNCHANGED <<dispatch_vars, provider>>
    \/ \E interface \in Interfaces, predicates \in PredicateLists(weight_class) :
          RegisterImplementation(interface, predicates) /\ UNCHANGED <<dispatch_vars, provider>>
    \/ \E interface \in Interfaces, constraints \in ConstraintLists(weight_class), all \in BOOLEAN :
          Provide(interface, constraints, all) /\ UNCHANGED <<dispatch_vars, provider>>

Spec == Init /\ [][Next]_vars

\* one LazyDispatch and the threads calling it
NextDispatch ==
    \/ \E t \in Threads, tpe \in ReturnTypes :
          RegisterCall(t, tpe) /\ UNCHANGED <<provider_vars, provider>>
    \/ \E t \in Threads : RegisterAcquire(t) /\ UNCHANGED <<provider_vars, provider>>
    \/ \E t \in Threads : RegisterAppend(t) /\ UNCHANGED <<provider_vars, provider>>
    \/ \E t \in Threads, item \in Types : GetCall(t, item) /\ UNCHANGED <<provider_vars, provider>>
    \/ \E t \in Threads : GetAcquire(t) /\ UNCHANGED <<provider_vars, provider>>
    \/ \E t \in Threads : GetWhile(t) /\ UNCHANGED <<provider_vars, provider>>
    \/ \E t \in Threads : GetKey(t) /\ UNCHANGED <<provider_vars, provider>>
    \/ \E t \in Threads : GetStore(t) /\ UNCHANGED <<provider_vars, provider>>
    \/ \E t \in Threads : GetReturn(t) /\ UNCHANGED <<provider_vars, provider>>

\* the provider is left as constructed
InitOfDispatch ==
    /\ InitProvider
    /\ weight_class = "NeutralWeight"
    /\ InitDispatch

SpecDispatch == InitOfDispatch /\ [][NextDispatch]_vars

-----------------------------------------------------------------------------
(* Properties of the Interface Registry, checked under Spec *)

\* the nodes of a known interface
Nodes(interface) == implementations[interface]

\* the node of the interface holding the dependency
NodeOf(interface, dependency) ==
    CHOOSE n \in Range(Nodes(interface)) : n.dependency = dependency

\* neither node is strictly less than the other
Tied(a, b) == ~NodeLt(a, b) /\ ~NodeLt(b, a)

\* the last call was maybe_provide on a known interface
Queried == last.op = "maybe_provide" /\ last.interface \in DOMAIN implementations
QueriedAll == Queried /\ last.all
QueriedSingle == Queried /\ ~last.all

Conflict == Raised("DuplicateDependencyError")

\* C1: in every state reached by register and register_implementation calls,
\* for every known interface the all query with no constraint returns its
\* handles by non-increasing weight: no handle's node is strictly less than
\* the node of a handle that comes later.
C1_AllSortedByWeight ==
    \A i \in DOMAIN implementations :
        LET r == MaybeProvide(implementations, i, <<>>, TRUE).value
        IN \A a \in 1..Len(r) : \A b \in (a + 1)..Len(r) :
               ~NodeLt(NodeOf(i, r[a]), NodeOf(i, r[b]))

\* an all query with no constraint returned three handles of three strictly
\* decreasing weights, the heaviest registered first
C1_Witness ==
    /\ QueriedAll /\ last.constraints = <<>>
    /\ LET r == last.outcome.value
           i == last.interface
       IN /\ Len(r) = 3
          /\ NodeLt(NodeOf(i, r[3]), NodeOf(i, r[2]))
          /\ NodeLt(NodeOf(i, r[2]), NodeOf(i, r[1]))
          /\ r[1] < r[2] /\ r[1] < r[3]

\* the two heaviest nodes of the queried interface are tied and every other
\* node is strictly less than them
TwoTiedOnTop(nodes) ==
    /\ Len(nodes) >= 2
    /\ Tied(nodes[Len(nodes) - 1], nodes[Len(nodes)])
    /\ \A k \in 1..(Len(nodes) - 2) : NodeLt(nodes[k], nodes[Len(nodes)])

\* C2: a single query over an interface whose two top implementations have
\* equal weight ends in Conflict when both match the constraints, and returns
\* the matching one, without Conflict, when exactly one of them matches.
C2_TiedTopSingle ==
    (QueriedSingle /\ TwoTiedOnTop(Nodes(last.interface))) =>
        LET nodes == Nodes(last.interface)
            a == nodes[Len(nodes) - 1]
            b == nodes[Len(nodes)]
            ma == Match(a, last.constraints)
            mb == Match(b, last.constraints)
        IN /\ (ma /\ mb) => last.outcome = Conflict
           /\ (ma /\ ~mb) => last.outcome = Returned(<<a.dependency>>)
           /\ (mb /\ ~ma) => last.outcome = Returned(<<b.dependency>>)

\* a single query with a constraint met two tied top nodes that both match
C2_Witness ==
    /\ QueriedSingle /\ TwoTiedOnTop(Nodes(last.interface))
    /\ last.constraints # <<>>
    /\ Len(Nodes(last.interface)) = 2
    /\ \A k \in 1..2 : Match(Nodes(last.interface)[k], last.constraints)
    /\ last.outcome = Conflict

\* C3: a single query over an interface with two implementations of strictly
\* different weights never ends in Conflict, whichever was registered first,
\* and returns the heavier one when both match the constraints.
C3_DifferentWeightsSingle ==
    (/\ QueriedSingle
     /\ Len(Nodes(last.interface)) = 2
     /\ ~Tied(Nodes(last.interface)[1], Nodes(last.interface)[2])) =>
        LET nodes == Nodes(last.interface)
            heavier == IF NodeLt(nodes[1], nodes[2]) THEN nodes[2] ELSE nodes[1]
        IN /\ last.outcome # Conflict
           /\ (Match(nodes[1], last.constraints) /\ Match(nodes[2], last.constraints))
                 => last.outcome = Returned(<<heavier.dependency>>)

\* a single query returned the heavier of two matching implementations, the
\* heavier one being the one registered first
C3_Witness ==
    /\ QueriedSingle
    /\ Len(Nodes(last.interface)) = 2
    /\ LET nodes == Nodes(last.interface)
       IN /\ NodeLt(nodes[1], nodes[2])
          /\ nodes[1].weight # None
          /\ nodes[2].dependency < nodes[1].dependency
          /\ Match(nodes[1], last.constraints) /\ Match(nodes[2], last.constraints)
          /\ last.outcome = Returned(<<nodes[2].dependency>>)

\* C4: a dependency registered with a predicate whose weight() is None is in
\* the outcome of no query, single or all, whatever the constraints, and in
\* no node list, whatever was registered afterwards.
C4_UnweightedNeverProvided ==
    /\ last.op = "maybe_provide" => Range(last.outcome.value) \cap unweighted = {}
    /\ \A i \in DOMAIN implementations :
           \A k \in 1..Len(Nodes(i)) : Nodes(i)[k].dependency \notin unweighted

\* an all query with no constraint on an interface for which a dependency
\* with a None weight as its second predicate was registered, then another
C4_Witness ==
    /\ QueriedAll /\ last.constraints = <<>>
    /\ last.outcome.value # <<>>
    /\ \E d \in unweighted : \E k \in 1..Len(last.outcome.value) :
           last.outcome.value[k] > d

\* C5 as stated: of two tied implementations in the result of an all query,
\* the one registered earlier comes first.
C5_TiesOldestFirst ==
    QueriedAll =>
        LET r == last.outcome.value
            i == last.interface
        IN \A a \in 1..Len(r) : \A b \in (a + 1)..Len(r) :
               Tied(NodeOf(i, r[a]), NodeOf(i, r[b])) => r[a] < r[b]

\* C5 amended: of two tied implementations in the result of an all query,
\* the one registered later comes first.
C5_TiesNewestFirst ==
    QueriedAll =>
        LET r == last.outcome.value
            i == last.interface
        IN \A a \in 1..Len(r) : \A b \in (a + 1)..Len(r) :
               Tied(NodeOf(i, r[a]), NodeOf(i, r[b])) => r[a] > r[b]

\* an all query with a constraint returned two tied implementations
C5_Witness ==
    /\ QueriedAll /\ last.constraints # <<>>
    /\ LET r == last.outcome.value
       IN /\ Len(r) >= 2
          /\ Tied(NodeOf(last.interface, r[1]), NodeOf(last.interface, r[2]))

\* C15: a query, single or all, whatever its outcome, leaves
\* __implementations as it was (the interfaces, their nodes, the order and
\* the same_weight_as_left flags), and the same query made again on the
\* registry it leaves, or made twice in a row, gives the same outcome.
C15_QueryLeavesRegistry ==
    [][last'.op = "maybe_provide" =>
          /\ implementations' = implementations
          /\ last'.outcome = MaybeProvide(implementations', last'.interface,
                                          last'.constraints, last'.all)
          /\ (/\ last.op = "maybe_provide"
              /\ last.interface = last'.interface
              /\ last.constraints = last'.constraints
              /\ last.all = last'.all) => last'.outcome = last.outcome]_vars

\* a single query with a constraint ended in Conflict on an interface of
\* three nodes while the other interface is unknown
C15_Witness ==
    /\ QueriedSingle /\ last.outcome = Conflict
    /\ last.constraints # <<>>
    /\ Len(Nodes(last.interface)) = 3
    /\ DOMAIN implementations = {last.interface}

\* an interface register was never called for
NoInterface == "I0"

\* the nodes of the interface matching the constraints
Matching(interface, constraints) ==
    {n \in Range(Nodes(interface)) : Match(n, constraints)}

\* the last call was a query on a known interface none of whose nodes match
QueriedWithoutMatch == Queried /\ Matching(last.interface, last.constraints) = {}

\* C16 as stated: for a single and for an all query alike, the outcome on a
\* known interface without matching implementation differs from the outcome
\* of the same query on an unknown interface.
C16_EmptyDiffersFromUnknown ==
    QueriedWithoutMatch =>
        last.outcome # MaybeProvide(implementations, NoInterface,
                                    last.constraints, last.all)

\* C16 amended: an all query returns the empty list on a known interface
\* without match and None on an unknown interface; a single query returns
\* None in both cases.
C16_EmptyDiffersFromUnknownForAll ==
    QueriedWithoutMatch =>
        LET unknown == MaybeProvide(implementations, NoInterface,
                                    last.constraints, last.all)
        IN /\ unknown = NotProvided
           /\ last.all => (last.outcome = Returned(<<>>) /\ last.outcome # unknown)
           /\ ~last.all => last.outcome = unknown

\* a single query found no match among the two nodes of a known interface
C16_Witness ==
    /\ QueriedWithoutMatch /\ ~last.all
    /\ Len(Nodes(last.interface)) = 2
    /\ last.outcome = NotProvided

\* C17: an all query on a known interface returns: it gives the handles of
\* exactly the matching nodes, each once, none when nothing matches, and it
\* never raises, also when matching nodes are tied; it gives None only when
\* the interface is unknown.
C17_AllNeverFails ==
    (last.op = "maybe_provide" /\ last.all) =>
        IF last.interface \in DOMAIN implementations
        THEN /\ last.outcome.kind = "return"
             /\ Range(last.outcome.value) =
                   {n.dependency : n \in Matching(last.interface, last.constraints)}
             /\ Len(last.outcome.value) =
                   Cardinality(Matching(last.interface, last.constraints))
        ELSE last.outcome = NotProvided

\* an all query with a constraint returned two tied nodes, on which the
\* single query ends in Conflict, and left out a third node
C17_Witness ==
    /\ QueriedAll /\ last.constraints # <<>>
    /\ Len(last.outcome.value) = 2
    /\ Len(Nodes(last.interface)) = 3
    /\ MaybeProvide(implementations, last.interface, last.constraints, FALSE) = Conflict

\* C18: register, also on an interface already known, returns and leaves
\* that interface known with an empty node list, so that every query on it
\* gives nothing; the node lists of the other interfaces are as before, and
\* a second register right after the first changes nothing.
C18_RegisterResets ==
    [][last'.op = "register" =>
          LET i == last'.interface
          IN /\ last'.outcome = Returned(<<>>)
             /\ DOMAIN implementations' = DOMAIN implementations \cup {i}
             /\ implementations'[i] = <<>>
             /\ \A j \in DOMAIN implementations \ {i} :
                   implementations'[j] = implementations[j]
             /\ \A c \in ConstraintLists(weight_class) :
                   /\ MaybeProvide(implementations', i, c, TRUE) = Returned(<<>>)
                   /\ MaybeProvide(implementations', i, c, FALSE) = NotProvided
             /\ (last.op = "register" /\ last.interface = i) =>
                   implementations' = implementations]_vars

\* register has just been called for an interface while the other interface
\* holds two nodes, three implementations having been registered with weights
C18_Witness ==
    /\ last.op = "register"
    /\ Nodes(last.interface) = <<>>
    /\ registered = 3 /\ unweighted = {}
    /\ \E j \in DOMAIN implementations \ {last.interface} : Len(Nodes(j)) = 2

\* the pairs <<a, b>> of nodes of the interface, a without predicates and b
\* with predicates whose weights are all NeutralWeight
BareAndNeutral(interface) ==
    {pair \in Range(Nodes(interface)) \X Range(Nodes(interface)) :
        /\ pair[1].predicates = <<>>
        /\ pair[2].predicates # <<>>
        /\ pair[2].weight = Neutral}

Scenario(interface, A, B, C) ==
    /\ A < B /\ B < C
    /\ {n.dependency : n \in Range(Nodes(interface))} = {A, B, C}
    /\ Len(Nodes(interface)) = 3
    /\ NodeOf(interface, A).predicates = <<QualifiedBy(<<x>>)>>
    /\ NodeOf(interface, B).predicates = <<QualifiedBy(<<x, y>>)>>
    /\ NodeOf(interface, C).predicates = <<>>

SingleQualifiedByX(interface) ==
    MaybeProvide(implementations, interface, <<QualifiedByConstraint(<<x>>)>>, FALSE)

-----------------------------------------------------------------------------
(* Properties of the Merge Registry, checked under SpecDispatch *)

\* the functions get has computed the key of
Resolved == Range(resolved)

\* the position of a function in the order of resolution
ResolvedAt(func) == CHOOSE k \in 1..Len(resolved) : resolved[k] = func

\* every function declared with the return type tpe
Resolving(tpe) == {f \in 1..Len(declared) : declared[f] = tpe}

\* the thread's last call was a finished get / register
GetDone(t) == frame[t].op = "get" /\ pc[t] = "idle"
RegisterDone(t) == frame[t].op = "register" /\ pc[t] = "idle"

\* C6: register never fails, also for a function whose key resolves to a type
\* another registered function has; the duplicate is reported by the get that
\* drains it: a drained function with a valid key is the one stored for its
\* type, or the get that took it raised the RuntimeError, and that error is
\* raised for nothing but a function whose type already had another one.
C6_DuplicateReportedAtDrain ==
    /\ \A t \in Threads : RegisterDone(t) => frame[t].outcome = Gave(0)
    /\ \A f \in Resolved :
          declared[f] \in Types =>
             \/ functions[declared[f]] = f
             \/ f \in reported
             \/ \E t \in Threads : pc[t] = "get_store" /\ frame[t].func = f
    /\ \A f \in reported :
          /\ functions[declared[f]] \in Resolving(declared[f]) \ {f}
          /\ f \in Completed
    /\ \A t \in Threads :
          (GetDone(t) /\ frame[t].outcome = Failed("RuntimeError")) =>
              frame[t].func \in reported

\* two functions of one type were registered, both calls returned, and a get
\* raised the RuntimeError for the one it drained second
C6_Witness ==
    \E t \in Threads, u \in Threads :
        /\ GetDone(t) /\ frame[t].outcome = Failed("RuntimeError")
        /\ RegisterDone(u)
        /\ declared[frame[u].func] = frame[t].tpe
        /\ functions[frame[t].tpe] \notin {0, frame[t].func}

\* the positions at which a thread holds the lock
Locked == DrainSteps \cup {"register_append"}

\* C7: in every interleaving at most one thread is inside the drain, no
\* thread appends while another drains, and every registration is taken
\* from the queue and resolved at most once.
C7_OneDrainAtATime ==
    /\ \A t \in Threads, u \in Threads :
          (pc[t] \in Locked /\ pc[u] \in Locked) => t = u
    /\ \A t \in Threads : pc[t] \in Locked => lock = t
    /\ \A j \in 1..Len(resolved), k \in 1..Len(resolved) :
          resolved[j] = resolved[k] => j = k
    /\ \A j \in 1..Len(lazy_registrations) :
          /\ lazy_registrations[j] \notin Resolved
          /\ \A k \in 1..Len(lazy_registrations) :
                lazy_registrations[j] = lazy_registrations[k] => j = k
          /\ \A t \in Threads :
                pc[t] \in {"get_key", "get_store"} => frame[t].func # lazy_registrations[j]

\* a thread is in the middle of a drain with an entry still pending while the
\* other thread waits for the lock
C7_Witness ==
    \E t \in Threads, u \in Threads :
        /\ pc[t] = "get_store" /\ lazy_registrations # <<>>
        /\ pc[u] \in {"get_lock", "register_lock"}

\* C8 as stated: a get(T) that began after register(key, f) returned, with
\* key(f) = T and no other registration resolving to T, returns f; a get(T)
\* returns None when no registration resolves to T.
C8_GetReturnsRegistered ==
    \A t \in Threads :
        GetDone(t) =>
            /\ \A f \in frame[t].before :
                  Resolving(frame[t].item) = {f} => frame[t].outcome = Gave(f)
            /\ Resolving(frame[t].item) = {} => frame[t].outcome = Gave(0)

\* C8 amended: such a get(T) returns f unless it raises (the drain met a
\* duplicate of another type or a key extractor that fails); a get(T) that
\* returns gives None when no registration resolves to T.
C8_GetReturnsRegisteredOrRaises ==
    \A t \in Threads :
        (GetDone(t) /\ frame[t].outcome.kind = "return") =>
            /\ \A f \in frame[t].before :
                  Resolving(frame[t].item) = {f} => frame[t].outcome = Gave(f)
            /\ Resolving(frame[t].item) = {} => frame[t].outcome = Gave(0)

\* a get returned the only function of its type, registered after an earlier
\* drain had resolved an older function
C8_Witness ==
    \E t \in Threads :
        /\ GetDone(t)
        /\ \E f \in frame[t].before :
              /\ Resolving(frame[t].item) = {f}
              /\ frame[t].outcome = Gave(f)
              /\ \E g \in Resolved : g < f /\ ResolvedAt(g) < ResolvedAt(f)

\* C9 as stated: the lookup of get happens with the lock held.
C9_LookupUnderLock ==
    \A t \in Threads : pc[t] = "get_return" => lock = t

\* C9 amended: get holds the lock during the drain only; at the lookup the
\* lock is released, so that another thread may hold it.
C9_LockHeldForDrainOnly ==
    \A t \in Threads :
        /\ pc[t] \in DrainSteps => lock = t
        /\ pc[t] = "get_return" => lock # t

\* a thread is between its drain and its lookup while the other one drains
C9_Witness ==
    \E t \in Threads, u \in Threads :
        /\ pc[t] = "get_return"
        /\ pc[u] = "get_store" /\ lock = u
        /\ declared[frame[u].func] = frame[t].item

\* C10 as stated: of two registrations pending when a get starts, the one
\* appended first is resolved first, and a get that returns has left none of
\* them pending.
C10_DrainOldestFirst ==
    \A t \in Threads :
        frame[t].op = "get" =>
            LET queue == frame[t].queue
            IN /\ \A a \in 1..Len(queue) : \A b \in (a + 1)..Len(queue) :
                     queue[b] \in Resolved =>
                        /\ queue[a] \in Resolved
                        /\ ResolvedAt(queue[a]) < ResolvedAt(queue[b])
               /\ (GetDone(t) /\ frame[t].outcome.kind = "return") =>
                     Range(queue) \subseteq Resolved

\* C10 amended: of two registrations pending when a get starts, the one
\* appended last is resolved first, and a get that returns has left none of
\* them pending.
C10_DrainNewestFirst ==
    \A t \in Threads :
        frame[t].op = "get" =>
            LET queue == frame[t].queue
            IN /\ \A a \in 1..Len(queue) : \A b \in (a + 1)..Len(queue) :
                     queue[a] \in Resolved =>
                        /\ queue[b] \in Resolved
                        /\ ResolvedAt(queue[b]) < ResolvedAt(queue[a])
               /\ (GetDone(t) /\ frame[t].outcome.kind = "return") =>
                     Range(queue) \subseteq Resolved

\* a get that started with three registrations pending has returned
C10_Witness ==
    \E t \in Threads :
        /\ GetDone(t) /\ frame[t].outcome.kind = "return"
        /\ Len(frame[t].queue) = 3
        /\ Len(resolved) = 3

\* C11: two registrations resolving to one type T are never silently settled:
\* a get(T) that began after both register calls returned does not return a
\* function, neither the get that detects the duplicate nor a later one.
C11_DuplicateNeverPicked ==
    \A t \in Threads :
        (/\ GetDone(t)
         /\ \E f \in frame[t].before, g \in frame[t].before :
               /\ f # g
               /\ declared[f] = frame[t].item
               /\ declared[g] = frame[t].item) =>
            frame[t].outcome.kind # "return"

-----------------------------------------------------------------------------
(* Declarations: lib/interface/_internal.py, specification SpecDeclare.     *)
(* The functions of the module are called one after the other; the module's *)
(* __predicate_merge is the LazyDispatch of the variables functions,        *)
(* lazy_registrations and declared.                                         *)

\* register_predicate_merge calls in one behaviour
MaxMerges == 1
\* register_implementation calls of the declarations in one behaviour
MaxDeclarations == 2

\* the predicate classes of the declarations
PredicateTypes == {"QualifiedBy", "UseMe", "Rank"}

\* an object that is no class, given where a class is expected
NotAClass == "object()"

\* an object without weight(), given where a Predicate is expected
NotAPredicate == [tpe |-> "object", qualifiers |-> <<>>, weight |-> None]

\* isinstance(predicate, Predicate)
IsPredicate(predicate) == predicate.tpe # "object"

\* UseMe(condition) of the merge docstring: NeutralWeight() if condition
UseMe(condition) == Pred("UseMe", IF condition THEN Neutral ELSE None)

\* the merge function declared for a predicate class, applied to (a, b):
\* QualifiedBy.merge, UseMe.merge of the docstring (a.condition and
\* b.condition), and for Rank a function returning its first argument
Merge(tpe, a, b) ==
    IF tpe = "QualifiedBy" THEN QualifiedBy(a.qualifiers \o b.qualifiers)
    ELSE IF tpe = "UseMe" THEN UseMe(a.weight # None /\ b.weight # None)
    ELSE a

\* get_return_type(f) raises TypeError: the hint is no subclass of Predicate
ReturnTypeRaises(func) == declared[func] \notin PredicateTypes

\* LazyDispatch.get(item) run from its first line to its last: the state of
\* the dispatch it leaves and its outcome
RECURSIVE DispatchGet(_, _, _)
DispatchGet(fns, queue, item) ==
    IF queue = <<>>
    THEN [functions |-> fns, queue |-> queue, outcome |-> Gave(fns[item])]
    ELSE LET k == Pop(queue)
             func == queue[k]
             rest == Without(queue, k)
         IN IF ReturnTypeRaises(func)
            THEN [functions |-> fns, queue |-> rest, outcome |-> Failed("TypeError")]
            ELSE IF fns[declared[func]] # 0
            THEN [functions |-> fns, queue |-> rest, outcome |-> Failed("RuntimeError")]
            ELSE DispatchGet([fns EXCEPT ![declared[func]] = func], rest, item)

\* the index of the predicate of class tpe in distinct_predicates, 0 for None
PreviousOf(distinct, tpe) ==
    IF \E n \in 1..Len(distinct) : distinct[n].tpe = tpe
    THEN CHOOSE n \in 1..Len(distinct) : distinct[n].tpe = tpe
    ELSE 0

\* the reducer is never missing
NoReducerNever(reducer) == FALSE

\* "if reducer is None"
NoReducer(reducer) == reducer = 0

\* the arguments of the reducer exchanged
ReduceSwapped(tpe, previous, predicate) == Merge(tpe, predicate, previous)

\* reducer(previous, predicate)
Reduce(tpe, previous, predicate) == Merge(tpe, previous, predicate)

\* the result of the loop over the predicates
Looped(outcome, distinct, fns, queue) ==
    [outcome |-> outcome, distinct |-> distinct, functions |-> fns, queue |-> queue]

\* the loop of register_implementation over predicates[k..]: distinct holds
\* distinct_predicates.values(); fns and queue are the state of
\* __predicate_merge
RECURSIVE DistinctPredicates(_, _, _, _, _)
DistinctPredicates(predicates, k, distinct, fns, queue) ==
    IF k > Len(predicates) THEN Looped(Returned(<<>>), distinct, fns, queue)
    ELSE IF ~IsPredicate(predicates[k])
    THEN Looped(Raised("TypeError"), distinct, fns, queue)
    ELSE LET key == predicates[k].tpe
             previous == PreviousOf(distinct, key)
         IN IF previous # 0
            THEN LET got == DispatchGet(fns, queue, key)
                 IN IF got.outcome.kind = "raise"
                    THEN Looped(Raised(got.outcome.error), distinct,
                                got.functions, got.queue)
                    ELSE IF NoReducer(got.outcome.value)
                    THEN Looped(Raised("RuntimeError"), distinct,
                                got.functions, got.queue)
                    ELSE DistinctPredicates(
                             predicates, k + 1,
                             [distinct EXCEPT
                                 ![previous] = Reduce(key, distinct[previous], predicates[k])],
                             got.functions, got.queue)
            ELSE DistinctPredicates(predicates, k + 1,
                                    Append(distinct, predicates[k]), fns, queue)

\* a class that is no subclass of the interface
Unrelated == "Invalid1"

\* a class that is a subclass of the interface
BaseImpl == "BaseImpl"

\* enforce_subclass_if_possible(implementation, interface) raises TypeError
EnforceSubclassRaises(implementation) == implementation = Unrelated

\* register_implementation up to the call of the provider: the checks of the
\* arguments, then the loop
Checked(interface, implementation, predicates) ==
    IF \/ interface = NotAClass
       \/ implementation = NotAClass
       \/ EnforceSubclassRaises(implementation)
    THEN Looped(Raised("TypeError"), <<>>, functions, lazy_registrations)
    ELSE DistinctPredicates(predicates, 1, <<>>, functions, lazy_registrations)

\* the provider called whatever the loop did
CalledProviderAlways(outcome) == TRUE

\* provider.register_implementation is reached: nothing was raised before
CalledProvider(outcome) == outcome.kind # "raise"

\* InterfaceProvider.register_implementation raises: the interface is looked
\* up once the weight is known
ProviderRaises(impls, interface, predicates) ==
    ~Returns(predicates) /\ interface \notin DOMAIN impls

\* the node inserted in the list of every interface, the list of the given
\* interface being created when it is missing
ProviderRegisteredAnywhere(impls, interface, dependency, predicates) ==
    IF Returns(predicates) THEN impls
    ELSE [i \in DOMAIN impls \cup {interface} |->
             Inserted(IF i \in DOMAIN impls THEN impls[i] ELSE <<>>,
                      ImplementationNode(dependency, predicates,
                                         NodeWeight(predicates)))]

\* __implementations after InterfaceProvider.register_implementation
ProviderRegistered(impls, interface, dependency, predicates) ==
    IF Returns(predicates) \/ interface \notin DOMAIN impls THEN impls
    ELSE [impls EXCEPT
             ![interface] =
                 Inserted(impls[interface],
                          ImplementationNode(dependency, predicates,
                                             NodeWeight(predicates)))]

\* the arguments given where the interface and the implementation are expected
InterfaceArguments == Interfaces \cup {NotAClass}
ImplementationArguments == {BaseImpl, Unrelated, NotAClass}

\* the predicates given to implements(...).when(...) in a world of NeutralWeight
NeutralWhenLists ==
    { <<>>,
      <<QualifiedBy(<<x>>)>>,
      <<QualifiedBy(<<x>>), QualifiedBy(<<y>>)>>,
      <<UseMe(TRUE), UseMe(FALSE)>>,
      <<UseMe(TRUE), QualifiedBy(<<y>>), UseMe(TRUE)>>,
      <<QualifiedBy(<<x>>), NotAPredicate>> }

\* the predicates given to implements(...).when(...) in a world of custom Weight
WeightWhenLists ==
    { <<>>,
      <<Pred("Rank", None), Pred("Rank", Weight(1))>>,
      <<Pred("Rank", Weight(1)), Pred("InCloud", Weight(1)), Pred("Rank", Weight(2))>>,
      <<Pred("Rank", Weight(1)), NotAPredicate>> }
    \cup { <<Pred("Rank", Weight(w))>> : w \in 1..MaxWeight }
    \cup { <<Pred("Rank", Weight(w)), Pred("Rank", Weight(1)), Pred("Rank", Weight(2))>> :
              w \in 1..MaxWeight }

WhenLists(cls) == IF cls = "NeutralWeight" THEN NeutralWhenLists ELSE WeightWhenLists

\* what is given to typeclasses.predicate.merge: a function with its return
\* type hint, or an object that is no function
MergeArguments(cls) ==
    (IF cls = "NeutralWeight" THEN {"QualifiedBy", "UseMe"} ELSE {"Rank"})
    \cup {"int", NotAClass}

\* register_interface
register_interface(interface) ==
    IF interface = NotAClass
    THEN /\ last' = Call("register", interface, 0, <<>>, <<>>, FALSE, Raised("TypeError"))
         /\ weight_calls' = <<>>
         /\ UNCHANGED <<implementations, registered, weight_class, unweighted,
                        accepted>>
    ELSE Register(interface)

\* register_predicate_merge and the LazyDispatch.register it calls
register_predicate_merge(f) ==
    /\ Len(declared) < 1 + MaxMerges
    /\ IF f = NotAClass
       THEN /\ last' = Call("register_predicate_merge", "", 0, <<>>, <<>>, FALSE,
                            Raised("TypeError"))
            /\ UNCHANGED <<declared, lazy_registrations>>
       ELSE /\ declared' = Append(declared, f)
            /\ lazy_registrations' = Append(lazy_registrations, Len(declared) + 1)
            /\ last' = Call("register_predicate_merge", "", 0, <<>>, <<>>, FALSE,
                            Returned(<<>>))
    /\ weight_calls' = <<>>
    /\ UNCHANGED <<implementations, registered, weight_class, unweighted, accepted>>
    /\ UNCHANGED <<functions, lock, pc, frame, gets, resolved, reported>>

\* the record kept of a call of register_implementation
Declaration(interface, implementation, dependency, predicates, outcome) ==
    [op |-> "implements", interface |-> interface, implementation |-> implementation,
     dependency |-> dependency, predicates |-> predicates, constraints |-> <<>>,
     all |-> FALSE, outcome |-> outcome]

\* register_implementation of lib/interface/_internal.py, for a new dependency
register_implementation(interface, implementation, predicates) ==
    LET dependency == registered + 1
        checked == Checked(interface, implementation, predicates)
        called == CalledProvider(checked.outcome)
        outcome ==
            IF checked.outcome.kind = "raise" THEN checked.outcome
            ELSE IF ProviderRaises(implementations, interface, checked.distinct)
            THEN Raised("KeyError")
            ELSE Returned(<<>>)
    IN /\ registered < MaxDeclarations
       /\ registered' = dependency
       /\ functions' = checked.functions
       /\ lazy_registrations' = checked.queue
       /\ implementations' =
             IF called
             THEN ProviderRegistered(implementations, interface, dependency,
                                     checked.distinct)
             ELSE implementations
       /\ unweighted' =
             IF called /\ \E k \in 1..Len(checked.distinct) :
                             checked.distinct[k].weight = None
             THEN unweighted \cup {dependency} ELSE unweighted
       /\ weight_calls' =
             IF called THEN Weighed(dependency, checked.distinct, 1) ELSE <<>>
       /\ accepted' =
             IF called
             THEN Accepted(accepted, interface, dependency, checked.distinct, outcome)
             ELSE accepted
       /\ last' = Declaration(interface, implementation, dependency, predicates, outcome)
       /\ UNCHANGED <<weight_class, lock, pc, frame, gets, declared, resolved, reported>>

\* the module as imported: QualifiedBy.merge is pending in __predicate_merge
InitDeclare ==
    /\ InitProvider
    /\ weight_class \in {"NeutralWeight", "Weight"}
    /\ functions = [tpe \in PredicateTypes |-> 0]
    /\ declared = <<"QualifiedBy">>
    /\ lazy_registrations = <<1>>
    /\ lock = 0
    /\ pc = [t \in Threads |-> "idle"]
    /\ frame = [t \in Threads |-> NoFrame]
    /\ gets = 0
    /\ resolved = <<>>
    /\ reported = {}

NextDeclare ==
    \/ \E interface \in InterfaceArguments :
          register_interface(interface) /\ UNCHANGED <<dispatch_vars, provider>>
    \/ \E f \in MergeArguments(weight_class) :
          register_predicate_merge(f) /\ UNCHANGED provider
    \/ \E interface \in InterfaceArguments,
          implementation \in ImplementationArguments,
          predicates \in WhenLists(weight_class) :
          register_implementation(interface, implementation, predicates)
          /\ UNCHANGED provider

SpecDeclare == InitDeclare /\ [][NextDeclare]_vars

-----------------------------------------------------------------------------
(* Properties of the declarations, checked under SpecDeclare *)

\* the last call was register_implementation of lib/interface/_internal.py
Implemented == last.op = "implements"

\* the predicate classes given more than once in a list of predicates
DuplicatedTypes(predicates) ==
    {predicates[k].tpe : k \in {n \in 1..Len(predicates) :
        \E m \in 1..(n - 1) : predicates[m].tpe = predicates[n].tpe}}

\* every function given to register_predicate_merge returns a Predicate, and
\* no two of them the same one
MergesValid ==
    \A f \in 1..Len(declared) :
        /\ declared[f] \in PredicateTypes
        /\ \A g \in 1..Len(declared) : declared[f] = declared[g] => f = g

\* the arguments of the last register_implementation pass the checks made
\* before the loop, and every element of the list is a Predicate
ArgumentsValid ==
    /\ last.interface \in Interfaces
    /\ last.implementation = BaseImpl
    /\ \A k \in 1..Len(last.predicates) : IsPredicate(last.predicates[k])

\* C12: register_implementation given two predicates of one class for which
\* no merge function was ever declared raises, whatever the weights of the
\* two (None included); the error is the RuntimeError of the missing reducer
\* when nothing else is wrong with the arguments and the declared merges.
C12_DuplicateWithoutMergeFails ==
    (/\ Implemented
     /\ \E tpe \in DuplicatedTypes(last.predicates) :
            tpe \in PredicateTypes /\ Resolving(tpe) = {}) =>
        /\ last.outcome.kind = "raise"
        /\ last.outcome.error \in {"RuntimeError", "TypeError"}
        /\ (ArgumentsValid /\ MergesValid /\ Cardinality(DuplicatedTypes(last.predicates)) = 1)
              => last.outcome.error = "RuntimeError"

\* two predicates of one class, the first with a weight() of None, were given
\* for a known interface while a merge function was declared for another
\* class only, and the RuntimeError was raised
C12_Witness ==
    /\ Implemented
    /\ last.interface \in DOMAIN implementations
    /\ Len(last.predicates) = 2
    /\ last.predicates[1].tpe = last.predicates[2].tpe
    /\ last.predicates[1].weight = None /\ last.predicates[2].weight # None
    /\ Resolving(last.predicates[1].tpe) = {}
    /\ Len(declared) = 2
    /\ last.outcome = Raised("RuntimeError")

\* the predicates of class tpe in the order given
OfType(predicates, tpe) == SelectSeq(predicates, LAMBDA p : p.tpe = tpe)

\* ps folded with the merge function of tpe from the left, acc holding the
\* merge of ps[1..k-1]
RECURSIVE Folded(_, _, _, _)
Folded(tpe, ps, k, acc) ==
    IF k > Len(ps) THEN acc ELSE Folded(tpe, ps, k + 1, Merge(tpe, acc, ps[k]))

\* one predicate per class, the classes in the order of their first predicate
RECURSIVE FoldedByType(_, _)
FoldedByType(predicates, k) ==
    IF k > Len(predicates) THEN <<>>
    ELSE IF \E m \in 1..(k - 1) : predicates[m].tpe = predicates[k].tpe
    THEN FoldedByType(predicates, k + 1)
    ELSE LET ps == OfType(predicates, predicates[k].tpe)
         IN <<Folded(predicates[k].tpe, ps, 2, ps[1])>> \o FoldedByType(predicates, k + 1)

\* the nodes, of any interface, holding the dependency
NodesHolding(dependency) ==
    {n \in UNION {Range(Nodes(i)) : i \in DOMAIN implementations} :
        n.dependency = dependency}

\* the last call declared, for a known interface and with valid arguments,
\* several predicates of one class, every such class having its merge function
DeclaredWithMerges ==
    /\ Implemented /\ ArgumentsValid /\ MergesValid
    /\ last.interface \in DOMAIN implementations
    /\ DuplicatedTypes(last.predicates) # {}
    /\ \A tpe \in DuplicatedTypes(last.predicates) : Resolving(tpe) # {}

\* the node the folded predicates give
MergedNode ==
    LET folded == FoldedByType(last.predicates, 1)
    IN [dependency |-> last.dependency, predicates |-> folded,
        weight |-> SumWeights(folded, 2, folded[1].weight)]

\* the interface of the last call has the node of MergedNode
HasMergedNode ==
    \E n \in Range(Nodes(last.interface)) :
        /\ n.dependency = MergedNode.dependency
        /\ n.predicates = MergedNode.predicates
        /\ n.weight = MergedNode.weight

\* C13 as stated: register_implementation given k >= 2 predicates of a class
\* that has a merge function succeeds and creates a node holding one predicate
\* of that class, the left fold of the k given, whose weight is the weight of
\* the folded predicate summed with the weights of the other classes.
C13_MergedNodeCreated ==
    DeclaredWithMerges => (last.outcome = Returned(<<>>) /\ HasMergedNode)

\* C13 amended: such a call succeeds; when every predicate left after the
\* fold has a weight it creates exactly that node, and when one of them (the
\* folded one included) has a weight() of None it creates no node at all.
C13_MergedNodeCreatedIfWeighted ==
    DeclaredWithMerges =>
        /\ last.outcome = Returned(<<>>)
        /\ IF \E k \in 1..Len(MergedNode.predicates) :
                  MergedNode.predicates[k].weight = None
           THEN NodesHolding(last.dependency) = {}
           ELSE HasMergedNode /\ Cardinality(NodesHolding(last.dependency)) = 1

\* two Rank predicates of weights 1 and 2 around a predicate of another class
\* were declared: the node has weight 2, the first Rank's weight plus the
\* other class's, and not 4
C13_Witness ==
    /\ DeclaredWithMerges
    /\ Len(last.predicates) = 3
    /\ last.predicates[1].weight = Weight(1)
    /\ last.predicates[3].weight = Weight(2)
    /\ last.predicates[1].tpe = last.predicates[3].tpe
    /\ HasMergedNode
    /\ Len(MergedNode.predicates) = 2
    /\ MergedNode.weight = Weight(2)

\* C14: a call of register_implementation that raises (an argument that is
\* no class, an implementation that is no subclass, an element that is no
\* Predicate, two predicates of a class without merge function, an error of
\* the drain, an interface never registered) leaves __implementations as it
\* was: the same interfaces, each with the same nodes in the same order.
C14_FailureLeavesNodes ==
    [][(/\ registered' # registered
        /\ last'.op = "implements"
        /\ last'.outcome.kind = "raise") => implementations' = implementations]_vars

\* the call raised the RuntimeError of the missing reducer for an interface
\* that holds a node, after the loop had kept a first predicate
C14_Witness ==
    /\ Implemented
    /\ last.outcome = Raised("RuntimeError")
    /\ last.interface \in DOMAIN implementations
    /\ Nodes(last.interface) # <<>>
    /\ Len(last.predicates) = 3
    /\ MergesValid

\* the nodes of the interface whose predicates are one QualifiedBy
QualifiedNodes(interface) ==
    {n \in Range(Nodes(interface)) :
        Len(n.predicates) = 1 /\ n.predicates[1].tpe = "QualifiedBy"}

\* the last call declared QualifiedBy(x) and QualifiedBy(y) for a known
\* interface and returned
DeclaredTwoQualifiedBy ==
    /\ Implemented
    /\ last.interface \in DOMAIN implementations
    /\ Len(last.predicates) = 2
    /\ \A k \in 1..2 : last.predicates[k].tpe = "QualifiedBy"
    /\ last.outcome = Returned(<<>>)

\* C22 as stated: the weight of a node qualified by n qualifiers is n, also
\* when the qualifiers come from two merged QualifiedBy predicates, and of
\* two nodes the one with fewer qualifiers is strictly less than the other.
C22_WeightIsQualifierCount ==
    \A i \in DOMAIN implementations :
        \A n \in QualifiedNodes(i) :
            /\ n.weight = Weight(Len(n.predicates[1].qualifiers))
            /\ \A m \in QualifiedNodes(i) :
                  Len(m.predicates[1].qualifiers) < Len(n.predicates[1].qualifiers)
                     => NodeLt(m, n)

\* C22 amended: a node qualified by any number of qualifiers weighs
\* NeutralWeight; two QualifiedBy predicates declared together are merged
\* into one holding the qualifiers of both, still of NeutralWeight; and two
\* qualified nodes are tied whatever their numbers of qualifiers.
C22_QualifiersWeighNeutral ==
    /\ \A i \in DOMAIN implementations :
          \A n \in QualifiedNodes(i) :
              /\ n.weight = Neutral
              /\ \A m \in QualifiedNodes(i) : Tied(m, n)
    /\ DeclaredTwoQualifiedBy =>
          \E n \in QualifiedNodes(last.interface) :
              /\ n.dependency = last.dependency
              /\ Range(n.predicates[1].qualifiers) =
                    Range(last.predicates[1].qualifiers)
                       \cup Range(last.predicates[2].qualifiers)
              /\ n.weight = Neutral

\* QualifiedBy(x) and QualifiedBy(y) were declared together for an interface
\* that holds a node qualified by x alone
C22_Witness ==
    /\ DeclaredTwoQualifiedBy
    /\ \E n \in QualifiedNodes(last.interface), m \in QualifiedNodes(last.interface) :
          /\ n.dependency = last.dependency
          /\ Len(n.predicates[1].qualifiers) = 2
          /\ Len(m.predicates[1].qualifiers) = 1
          /\ Tied(m, n)

-----------------------------------------------------------------------------
(* Further properties of the Interface Registry, checked under Spec *)

\* C23: requesting the interface itself, not a query built for it, is not
\* found (maybe_provide returns None), whether the interface has one or
\* several implementations.
C23_BareInterfaceNotFound ==
    \A i \in DOMAIN implementations :
        Len(Nodes(i)) >= 1 =>
            MaybeProvideInterface(implementations, i) = NotProvided

\* the flag the node at index k of the list should carry
FlagOf(nodes, k) == k > 1 /\ ~NodeLt(nodes[k - 1], nodes[k])

\* the last call inserted a node into a list that held nodes already
InsertedBesideOthers ==
    /\ last.op = "register_implementation"
    /\ last.interface \in DOMAIN implementations
    /\ NodesHolding(last.dependency) # {}
    /\ Len(Nodes(last.interface)) >= 3

\* C24: for every node of every interface the flag same_weight_as_left is
\* true iff the node has a neighbour on its lower side (the preceding index)
\* and that neighbour is not strictly less than the node.
C24_FlagsAgreeWithNeighbours ==
    \A i \in DOMAIN implementations :
        \A k \in 1..Len(Nodes(i)) :
            Nodes(i)[k].same_weight_as_left = FlagOf(Nodes(i), k)

\* a node was inserted between two nodes already present, one tied with it
\* and one strictly above it
C24_Witness ==
    /\ InsertedBesideOthers
    /\ \E k \in 2..(Len(Nodes(last.interface)) - 1) :
          /\ Nodes(last.interface)[k].dependency = last.dependency
          /\ Nodes(last.interface)[k].same_weight_as_left
          /\ ~Nodes(last.interface)[k + 1].same_weight_as_left

\* the matching nodes of the interface no matching node is strictly above
TopMatching(interface, constraints) ==
    {n \in Matching(interface, constraints) :
        \A m \in Matching(interface, constraints) : ~NodeLt(n, m)}

\* C25: a single query ends in Conflict iff at least two matching nodes share
\* the highest weight found among the matching nodes, wherever the nodes that
\* do not match lie; if only one matching node has that weight its handle is
\* returned, matching nodes of lower weight notwithstanding.
C25_ConflictIffTiedOnTop ==
    QueriedSingle =>
        LET top == TopMatching(last.interface, last.constraints)
        IN /\ last.outcome = Conflict <=> Cardinality(top) >= 2
           /\ Cardinality(top) = 1 =>
                 \E n \in top : last.outcome = Returned(<<n.dependency>>)
           /\ top = {} => last.outcome = NotProvided

\* a single query ended in Conflict between the first and the third node of a
\* list whose second node has their weight and does not match
C25_Witness ==
    /\ QueriedSingle
    /\ last.outcome = Conflict
    /\ LET nodes == Nodes(last.interface)
       IN /\ Len(nodes) = 3
          /\ Match(nodes[1], last.constraints)
          /\ ~Match(nodes[2], last.constraints)
          /\ Match(nodes[3], last.constraints)
          /\ Tied(nodes[1], nodes[2]) /\ Tied(nodes[2], nodes[3])

\* the predicates of the node that are instances of the class
PredicatesOf(node, tpe) ==
    {p \in Range(node.predicates) : p.tpe = tpe}

\* what a constraint says of a predicate, or of none: QualifiedBy asks for a
\* predicate holding all its qualifiers, NotQualified for no predicate
Holds(constraint, node) ==
    LET of_type == PredicatesOf(node, constraint.tpe)
    IN IF constraint.kind = "QualifiedBy"
       THEN /\ of_type # {}
            /\ \A p \in of_type :
                  Range(constraint.qualifiers) \subseteq Range(p.qualifiers)
       ELSE of_type = {}

\* the handles of the nodes every constraint holds of
Satisfying(interface, constraints) ==
    {n.dependency : n \in {m \in Range(Nodes(interface)) :
                              \A k \in 1..Len(constraints) : Holds(constraints[k], m)}}

\* C26: a node matches a constraint list iff every constraint evaluates true
\* against the node's predicate of the constraint's class, or against none
\* when the node has no such predicate: an all query returns exactly the
\* nodes every constraint holds of, every node when the list is empty, and no
\* node without QualifiedBy predicate when the list has a QualifiedBy.
C26_MatchEveryConstraint ==
    QueriedAll =>
        LET got == Range(last.outcome.value)
            nodes == Range(Nodes(last.interface))
        IN /\ got = Satisfying(last.interface, last.constraints)
           /\ last.constraints = <<>> => got = {n.dependency : n \in nodes}
           /\ \A n \in nodes :
                 (/\ PredicatesOf(n, "QualifiedBy") = {}
                  /\ \E k \in 1..Len(last.constraints) :
                        last.constraints[k].kind = "QualifiedBy")
                    => n.dependency \notin got

\* an all query with two constraints returned one node out of three: a second
\* one fails the second constraint only and a third has no predicate
C26_Witness ==
    /\ QueriedAll
    /\ Len(last.constraints) = 2
    /\ Len(Nodes(last.interface)) = 3
    /\ Cardinality(Range(last.outcome.value)) = 1
    /\ \E n \in Range(Nodes(last.interface)) :
          /\ Holds(last.constraints[1], n) /\ ~Holds(last.constraints[2], n)
    /\ \E n \in Range(Nodes(last.interface)) : n.predicates = <<>>

\* the index of the first predicate whose weight() is None, 0 without one
FirstUnweighted(predicates) ==
    LET none == {k \in 1..Len(predicates) : predicates[k].weight = None}
    IN IF none = {} THEN 0 ELSE CHOOSE k \in none : \A n \in none : k <= n

\* C27: register_implementation calls weight() on the predicates in list
\* order and stops at the first that yields None: the weight() of no later
\* predicate is called and no node is inserted for the implementation.
C27_WeightShortCircuits ==
    last.op = "register_implementation" =>
        LET first == FirstUnweighted(last.predicates)
            upto == IF first = 0 THEN Len(last.predicates) ELSE first
        IN /\ weight_calls = [k \in 1..upto |-> <<last.dependency, k>>]
           /\ first > 0 => NodesHolding(last.dependency) = {}

\* the first of two predicates had no weight: the second was not asked for
\* its weight and the interface, which is known, got no node
C27_Witness ==
    /\ last.op = "register_implementation"
    /\ last.interface \in DOMAIN implementations
    /\ Len(last.predicates) = 2
    /\ FirstUnweighted(last.predicates) = 1
    /\ weight_calls = <<<<last.dependency, 1>>>>
    /\ NodesHolding(last.dependency) = {}

\* every node of the list has the weight its predicates gave it when it was
\* registered and stands where that weight and its turn put it: after the
\* nodes of lower weight and after the earlier nodes of its weight
PlacedByWeight(nodes) ==
    /\ \A k \in 1..Len(nodes) : nodes[k].weight = NodeWeight(nodes[k].predicates)
    /\ \A a, b \in 1..Len(nodes) :
          a < b => /\ ~NodeLt(nodes[b], nodes[a])
                   /\ Tied(nodes[a], nodes[b]) =>
                         nodes[a].dependency < nodes[b].dependency

\* C28: weight() is called at most once on a predicate, by the
\* register_implementation call that receives it, and a query calls no
\* weight(); every node keeps the weight of its registration and the place
\* that weight gave it, however many queries were made.
C28_WeighedOnceAtRegistration ==
    /\ \A a, b \in 1..Len(weight_calls) :
          weight_calls[a] = weight_calls[b] => a = b
    /\ \A a \in 1..Len(weight_calls) :
          /\ last.op = "register_implementation"
          /\ weight_calls[a][1] = last.dependency
          /\ weight_calls[a][1] = registered
    /\ last.op = "maybe_provide" => weight_calls = <<>>
    /\ \A i \in DOMAIN implementations : PlacedByWeight(Nodes(i))

\* a single query returned a node whose two predicates were weighed when it
\* was registered, and called no weight()
C28_Witness ==
    /\ QueriedSingle
    /\ last.outcome.kind = "return"
    /\ Len(NodeOf(last.interface, last.outcome.value[1]).predicates) = 2
    /\ weight_calls = <<>>

-----------------------------------------------------------------------------
(* register_implementation called from several threads, specification       *)
(* SpecThreads. InterfaceProvider takes no lock: a thread can be preempted   *)
(* between bisect_right, the computation of same_weight_as_left and insert.  *)

\* register_implementation calls of the threads in one behaviour
MaxThreadCalls == 2

\* the locals of a thread in register_implementation; seen is the length of
\* the list when it was searched, raced tells whether some insert of the
\* thread met a list that had changed since its search
Local(interface, node, pos, seen, raced) ==
    [interface |-> interface, node |-> node, pos |-> pos, seen |-> seen,
     raced |-> raced]

NoLocal == Local("", ImplementationNode(0, <<>>, None), 0, 0, FALSE)

\* TRUE when the list searched at length seen is no longer the list inserted in
Raced(seen, nodes) == seen # Len(nodes)

\* implementations.insert(0, node) in place of insert(pos, node)
InsertAtFront(nodes, pos, node) == Insert(nodes, 0, node)

\* implementations.insert(pos, node)
InsertAt(nodes, pos, node) == Insert(nodes, pos, node)

\* InterfaceProvider.register, for an interface not yet known
RegisterNew(interface) ==
    /\ interface \notin DOMAIN implementations
    /\ Register(interface)

\* register_implementation up to bisect_right: the weights, the node, the
\* list of the interface and the position
RegisterImplementationBisect(t, interface, predicates) ==
    LET dependency == registered + 1
        node == ImplementationNode(dependency, predicates, NodeWeight(predicates))
    IN /\ pc[t] = "idle"
       /\ registered < MaxThreadCalls
       /\ registered' = dependency
       /\ unweighted' =
             IF \E k \in 1..Len(predicates) : predicates[k].weight = None
             THEN unweighted \cup {dependency} ELSE unweighted
       /\ weight_calls' = Weighed(dependency, predicates, 1)
       /\ IF Returns(predicates)
          THEN /\ last' = Call("register_implementation", interface, dependency,
                               predicates, <<>>, FALSE, Returned(<<>>))
               /\ UNCHANGED <<pc, frame>>
          ELSE IF interface \notin DOMAIN implementations
          THEN /\ last' = Call("register_implementation", interface, dependency,
                               predicates, <<>>, FALSE, Raised("KeyError"))
               /\ UNCHANGED <<pc, frame>>
          ELSE /\ pc' = [pc EXCEPT ![t] = "flag"]
               /\ frame' = [frame EXCEPT ![t] =
                     Local(interface, node,
                           Position(implementations[interface], node),
                           Len(implementations[interface]), frame[t].raced)]
               /\ UNCHANGED last
       /\ UNCHANGED <<implementations, weight_class, accepted>>

\* node.same_weight_as_left = pos > 0 and not (implementations[pos - 1] < node)
RegisterImplementationFlag(t) ==
    /\ pc[t] = "flag"
    /\ pc' = [pc EXCEPT ![t] = "insert"]
    /\ frame' = [frame EXCEPT ![t].node.same_weight_as_left =
                    SameWeightAsLeft(implementations[frame[t].interface],
                                     frame[t].pos, frame[t].node)]
    /\ UNCHANGED <<implementations, registered, weight_class, last, unweighted,
                   weight_calls, accepted>>

\* implementations.insert(pos, node) and the return
RegisterImplementationInsert(t) ==
    /\ pc[t] = "insert"
    /\ pc' = [pc EXCEPT ![t] = "idle"]
    /\ implementations' =
          [implementations EXCEPT
              ![frame[t].interface] = InsertAt(@, frame[t].pos, frame[t].node)]
    /\ frame' = [frame EXCEPT ![t].raced =
                    @ \/ Raced(frame[t].seen, implementations[frame[t].interface])]
    /\ last' = Call("register_implementation", frame[t].interface,
                    frame[t].node.dependency, frame[t].node.predicates, <<>>, FALSE,
                    Returned(<<>>))
    /\ accepted' = Accepted(accepted, frame[t].interface, frame[t].node.dependency,
                            frame[t].node.predicates, Returned(<<>>))
    /\ UNCHANGED <<registered, weight_class, unweighted, weight_calls>>

InitThreads ==
    /\ InitProvider
    /\ weight_class \in {"NeutralWeight", "Weight"}
    /\ functions = [tpe \in Types |-> 0]
    /\ lazy_registrations = <<>>
    /\ lock = 0
    /\ pc = [t \in Threads |-> "idle"]
    /\ frame = [t \in Threads |-> NoLocal]
    /\ gets = 0
    /\ declared = <<>>
    /\ resolved = <<>>
    /\ reported = {}

NextThreads ==
    \/ \E interface \in Interfaces :
          /\ RegisterNew(interface)
          /\ UNCHANGED <<dispatch_vars, provider>>
    \/ \E t \in Threads, interface \in Interfaces,
          predicates \in PredicateLists(weight_class) :
          /\ RegisterImplementationBisect(t, interface, predicates)
          /\ UNCHANGED <<functions, lazy_registrations, lock, gets, declared,
                         resolved, reported, provider>>
    \/ \E t \in Threads :
          /\ RegisterImplementationFlag(t)
          /\ UNCHANGED <<functions, lazy_registrations, lock, gets, declared,
                         resolved, reported, provider>>
    \/ \E t \in Threads :
          /\ RegisterImplementationInsert(t)
          /\ UNCHANGED <<functions, lazy_registrations, lock, gets, declared,
                         resolved, reported, provider>>

SpecThreads == InitThreads /\ [][NextThreads]_vars

-----------------------------------------------------------------------------
(* Properties of concurrent registrations, checked under SpecThreads *)

\* no node of the list is strictly less than a node before it
Sorted(nodes) ==
    \A a, b \in 1..Len(nodes) : a < b => ~NodeLt(nodes[b], nodes[a])

\* every flag of the list agrees with the node's neighbour
Flagged(nodes) ==
    \A k \in 1..Len(nodes) : nodes[k].same_weight_as_left = FlagOf(nodes, k)

\* C29: the ordered insert takes no lock. As long as every insert met the
\* list its search had seen (the registrations were serialized on that list)
\* every list is sorted by weight and every flag agrees with the node's
\* neighbour; an insert that met a changed list can leave a list unsorted or
\* a flag wrong.
C29_SerializedKeepsOrder ==
    (\A t \in Threads : ~frame[t].raced) =>
        \A i \in DOMAIN implementations :
            Sorted(Nodes(i)) /\ Flagged(Nodes(i))

\* two registrations interleaved between search and insert and both
\* returned: a list is not sorted by weight
C29_Witness ==
    /\ \E t \in Threads : frame[t].raced
    /\ \A t \in Threads : pc[t] = "idle"
    /\ \E i \in DOMAIN implementations : ~Sorted(Nodes(i))

-----------------------------------------------------------------------------
(* QualifiedBy.evaluate on its own, specification SpecEvaluate: a constraint *)
(* and a predicate, or None, are chosen and evaluate is called once.         *)

\* qualifier objects of the evaluations, named by their id()
MaxQualifiers == 3

Qualifiers == 1..MaxQualifiers

\* QualifiedBy(*qualifiers) for every non-empty choice of qualifiers
QualifiedBys == {QualifiedBy(SortedById(q)) : q \in SUBSET Qualifiers \ {{}}}

\* the constraints QualifiedBy(*qualifiers) gives
QualifiedByConstraints ==
    {QualifiedByConstraint(SortedById(q)) : q \in SUBSET Qualifiers \ {{}}}

\* constraint.evaluate(predicate) is about to be called; predicates is <<>>
\* when the predicate is None
InitEvaluate ==
    /\ implementations = <<>>
    /\ registered = 0
    /\ unweighted = {}
    /\ weight_calls = <<>>
    /\ accepted = {}
    /\ provider = NoClone
    /\ weight_class = "NeutralWeight"
    /\ \E constraint \in QualifiedByConstraints :
          \E predicates \in {<<>>} \cup {<<p>> : p \in QualifiedBys} :
             last = Call("evaluate", "", 0, predicates, <<constraint>>, FALSE,
                         NotProvided)
    /\ InitDispatch

\* QualifiedBy.evaluate(predicate)
EvaluateCall ==
    /\ last.op = "evaluate"
    /\ last.outcome = NotProvided
    /\ last' = [last EXCEPT !.outcome =
                   Returned(<<IF last.predicates = <<>>
                              THEN Evaluate(last.constraints[1], FALSE, None)
                              ELSE Evaluate(last.constraints[1], TRUE,
                                            last.predicates[1])>>)]
    /\ UNCHANGED <<implementations, registered, weight_class, unweighted,
                   weight_calls, accepted>>
    /\ UNCHANGED <<dispatch_vars, provider>>

NextEvaluate == EvaluateCall

SpecEvaluate == InitEvaluate /\ [][NextEvaluate]_vars

\* evaluate has returned
Evaluated == last.op = "evaluate" /\ last.outcome.kind = "return"

\* C30: QualifiedBy.evaluate returns true iff the predicate is not None and
\* every qualifier of the constraint is among the qualifiers of the predicate.
C30_EvaluateIsInclusion ==
    Evaluated =>
        (last.outcome.value[1] <=>
            /\ last.predicates # <<>>
            /\ Range(last.constraints[1].qualifiers)
                  \subseteq Range(last.predicates[1].qualifiers))

\* evaluate returned false for a constraint and a predicate of two
\* qualifiers each, sharing one of them
C30_Witness ==
    /\ Evaluated
    /\ last.predicates # <<>>
    /\ Len(last.constraints[1].qualifiers) = 2
    /\ Len(last.predicates[1].qualifiers) = 2
    /\ Cardinality(Range(last.constraints[1].qualifiers)
                      \cap Range(last.predicates[1].qualifiers)) = 1
    /\ last.outcome.value[1] = FALSE

-----------------------------------------------------------------------------
(* create_constraints of lib/interface/_internal.py, specification          *)
(* SpecCreate. The variables functions, lazy_registrations and declared are  *)
(* the LazyDispatch __constraints_merge, in which QualifiedBy.merge is       *)
(* pending when the module is imported.                                      *)

\* constraints given to one create_constraints call
MaxConstraints == 2

\* the classes of the constraints
ConstraintTypes == {"QualifiedBy", "QualifiedByOneOf"}

\* an object that is no PredicateConstraint
NotAConstraint == [tpe |-> "", kind |-> "object", qualifiers |-> <<>>]

\* the qualifier objects of the constraints, named by their id()
CreateQualifiers == {1, 2, 3}

\* the constraints a caller builds: QualifiedBy of any qualifiers, QualifiedByOneOf
\* of two qualifiers, and an invalid one
ConstraintArguments ==
    {QualifiedByConstraint(SortedById(q)) : q \in SUBSET CreateQualifiers \ {{}}}
       \cup {QualifiedByOneOf(SortedById(q)) :
                q \in {q \in SUBSET CreateQualifiers : Cardinality(q) = 2}}
       \cup {NotAConstraint}

\* the lists of constraints given to create_constraints
RECURSIVE ListsOf(_, _)
ListsOf(items, n) ==
    IF n = 0 THEN {<<>>}
    ELSE LET shorter == ListsOf(items, n - 1)
         IN shorter \cup {Append(l, c) : l \in shorter, c \in items}

\* QualifiedBy.merge keeping its first argument
MergeConstraintFirst(a, b) == a

\* QualifiedBy.merge(a, b) = QualifiedBy(*a.qualifiers, *b.qualifiers)
MergeConstraint(a, b) == QualifiedByConstraint(a.qualifiers \o b.qualifiers)

\* the index in constraints_groups of the group of the class, 0 without one
GroupOf(groups, kind) ==
    IF \E g \in 1..Len(groups) : groups[g][1].kind = kind
    THEN CHOOSE g \in 1..Len(groups) : groups[g][1].kind = kind
    ELSE 0

\* the grouping loop of create_constraints over constraints[k..]: groups
\* holds constraints_groups.values() in the order of the dict, fns and queue
\* are the state of __constraints_merge
RECURSIVE ConstraintsGroups(_, _, _, _, _)
ConstraintsGroups(constraints, k, groups, fns, queue) ==
    IF k > Len(constraints) THEN Looped(Returned(<<>>), groups, fns, queue)
    ELSE LET tpe == constraints[k].kind
             previous == GroupOf(groups, tpe)
             got == DispatchGet(fns, queue, tpe)
         IN IF got.outcome.kind = "raise"
            THEN Looped(Raised(got.outcome.error), groups, got.functions, got.queue)
            ELSE IF got.outcome.value # 0 /\ previous # 0
            THEN ConstraintsGroups(
                     constraints, k + 1,
                     [groups EXCEPT
                         ![previous][1] = MergeConstraint(@, constraints[k])],
                     got.functions, got.queue)
            ELSE IF previous # 0
            THEN ConstraintsGroups(
                     constraints, k + 1,
                     [groups EXCEPT ![previous] = Append(@, constraints[k])],
                     got.functions, got.queue)
            ELSE ConstraintsGroups(constraints, k + 1,
                                   Append(groups, <<constraints[k]>>),
                                   got.functions, got.queue)

\* itertools.chain.from_iterable(constraints_groups.values())
RECURSIVE Chained(_)
Chained(groups) ==
    IF groups = <<>> THEN <<>> ELSE Head(groups) \o Chained(Tail(groups))

\* create_constraints(*constraints) run from its first line to its last
CreateConstraints(constraints, fns, queue) ==
    IF \E k \in 1..Len(constraints) : constraints[k].kind \notin ConstraintTypes
    THEN Looped(Raised("TypeError"), <<>>, fns, queue)
    ELSE LET grouped == ConstraintsGroups(constraints, 1, <<>>, fns, queue)
         IN IF grouped.outcome.kind = "raise" THEN grouped
            ELSE Looped(Returned(Chained(grouped.distinct)), grouped.distinct,
                        grouped.functions, grouped.queue)

\* create_constraints
create_constraints(constraints) ==
    LET created == CreateConstraints(constraints, functions, lazy_registrations)
    IN /\ functions' = created.functions
       /\ lazy_registrations' = created.queue
       /\ last' = Call("create_constraints", "", 0, <<>>, constraints, FALSE,
                       created.outcome)
       /\ UNCHANGED <<implementations, registered, weight_class, unweighted,
                      weight_calls, accepted>>
       /\ UNCHANGED <<lock, pc, frame, gets, declared, resolved, reported, provider>>

InitCreate ==
    /\ InitProvider
    /\ weight_class = "NeutralWeight"
    /\ functions = [tpe \in PredicateTypes \cup ConstraintTypes |-> 0]
    /\ declared = <<"QualifiedBy">>
    /\ lazy_registrations = <<1>>
    /\ lock = 0
    /\ pc = [t \in Threads |-> "idle"]
    /\ frame = [t \in Threads |-> NoFrame]
    /\ gets = 0
    /\ resolved = <<>>
    /\ reported = {}

NextCreate ==
    \E constraints \in ListsOf(ConstraintArguments, MaxConstraints) :
        create_constraints(constraints)

SpecCreate == InitCreate /\ [][NextCreate]_vars

-----------------------------------------------------------------------------
(* Properties of create_constraints, checked under SpecCreate *)

\* create_constraints has returned its list
Created == last.op = "create_constraints" /\ last.outcome.kind = "return"

\* the constraints of the class in the list, in their order
RECURSIVE OfKind(_, _)
OfKind(constraints, kind) ==
    IF constraints = <<>> THEN <<>>
    ELSE (IF Head(constraints).kind = kind THEN <<Head(constraints)>> ELSE <<>>)
         \o OfKind(Tail(constraints), kind)

\* what create_constraints returns for the list in the current state
CreatedFrom(constraints) ==
    CreateConstraints(constraints, functions, lazy_registrations).outcome

\* a node holding the predicate, or no predicate when given <<>>
Holding(predicates) == ImplementationNode(0, predicates, Neutral)

\* C31: create_constraints merges the QualifiedBy constraints into one whose
\* qualifiers are the union of theirs, without duplicates, so that the order
\* and the repetition of the constraints do not matter; the result is matched
\* by exactly the predicates every given constraint evaluates true on; the
\* QualifiedByOneOf constraints, which have no merge function, are all kept.
C31_MergeIsUnion ==
    Created =>
        LET given == last.constraints
            made == last.outcome.value
            qualified == OfKind(given, "QualifiedBy")
        IN /\ qualified # <<>> =>
                 /\ Len(OfKind(made, "QualifiedBy")) = 1
                 /\ LET merged == OfKind(made, "QualifiedBy")[1]
                    IN /\ Range(merged.qualifiers) =
                             UNION {Range(qualified[k].qualifiers) :
                                       k \in 1..Len(qualified)}
                       /\ Len(merged.qualifiers) = Cardinality(Range(merged.qualifiers))
                       /\ CreatedFrom(<<merged>>) = Returned(<<merged>>)
           /\ qualified = <<>> => OfKind(made, "QualifiedBy") = <<>>
           /\ (Len(given) = 2 /\ Len(qualified) = 2) =>
                 /\ CreatedFrom(<<given[2], given[1]>>) = last.outcome
                 /\ given[1] = given[2] => CreatedFrom(<<given[1]>>) = last.outcome
           /\ OfKind(made, "QualifiedByOneOf") = OfKind(given, "QualifiedByOneOf")
           /\ \A predicates \in {<<>>} \cup {<<p>> : p \in QualifiedBys} :
                 Match(Holding(predicates), made) <=>
                    \A k \in 1..Len(given) : Match(Holding(predicates), <<given[k]>>)

\* two QualifiedBy constraints sharing one of their two qualifiers were given
\* and one constraint of three qualifiers was returned
C31_Witness ==
    /\ Created
    /\ Len(last.constraints) = 2
    /\ \A k \in 1..2 : /\ last.constraints[k].kind = "QualifiedBy"
                       /\ Len(last.constraints[k].qualifiers) = 2
    /\ Len(last.outcome.value) = 1
    /\ Len(last.outcome.value[1].qualifiers) = 3

-----------------------------------------------------------------------------
(* LazyDispatch under fair scheduling, specification FairSpecDispatch: a     *)
(* thread inside register or get goes on running, and a thread waiting for   *)
(* the lock gets it if the lock is free again and again.                     *)

\* register and get calls in one behaviour of the fair specification
MaxFairRegisters == 2
MaxFairGets == 2

\* the steps of thread t inside a call, the acquisitions of the lock excepted
Running(t) ==
    \/ RegisterAppend(t) /\ UNCHANGED <<provider_vars, provider>>
    \/ GetWhile(t) /\ UNCHANGED <<provider_vars, provider>>
    \/ GetKey(t) /\ UNCHANGED <<provider_vars, provider>>
    \/ GetStore(t) /\ UNCHANGED <<provider_vars, provider>>
    \/ GetReturn(t) /\ UNCHANGED <<provider_vars, provider>>

\* "with self.__lock" of thread t, in register or in get
Acquiring(t) ==
    \/ RegisterAcquire(t) /\ UNCHANGED <<provider_vars, provider>>
    \/ GetAcquire(t) /\ UNCHANGED <<provider_vars, provider>>

FairNextDispatch ==
    \/ \E t \in Threads, tpe \in ReturnTypes :
          /\ Len(declared) < MaxFairRegisters
          /\ RegisterCall(t, tpe)
          /\ UNCHANGED <<provider_vars, provider>>
    \/ \E t \in Threads, item \in Types :
          /\ gets < MaxFairGets
          /\ GetCall(t, item)
          /\ UNCHANGED <<provider_vars, provider>>
    \/ \E t \in Threads : Running(t)
    \/ \E t \in Threads : Acquiring(t)

FairSpecDispatch ==
    /\ InitOfDispatch
    /\ [][FairNextDispatch]_vars
    /\ \A t \in Threads : WF_vars(Running(t)) /\ SF_vars(Acquiring(t))

\* the positions at which a thread holds the lock
LockHeldAt == {"register_append", "get_while", "get_key", "get_store"}

\* C32: under fair scheduling every register and every get call that has
\* begun ends, by a return or by a raise, and the lock is held by a thread
\* inside a with block only: it is free after every exit of get, the raise
\* for a duplicate and the raise of the key extractor included.
C32_CallsEnd ==
    /\ \A t \in Threads : (pc[t] # "idle") ~> (pc[t] = "idle")
    /\ [](\A t \in Threads : lock = t => pc[t] \in LockHeldAt)
    /\ [](lock # 0 => lock \in Threads)

\* a get raised and afterwards the get of the other thread, begun on the
\* queue the failure left empty, returned
C32_Witness ==
    \E t, u \in Threads :
        /\ t # u
        /\ frame[t].op = "get" /\ pc[t] = "idle" /\ frame[t].outcome.kind = "raise"
        /\ frame[u].op = "get" /\ pc[u] = "idle" /\ frame[u].outcome.kind = "return"
        /\ frame[u].queue = <<>> /\ frame[u].before = 1..MaxFairRegisters
        /\ lock = 0

\* the threads that are at the store of get
Storing == {t \in Threads : pc[t] = "get_store"}

\* C33: the resolved map only grows. No step removes the function of a type
\* or replaces it by another; a step that changes the map is the store of a
\* get; a step of register leaves the map as it is and, when it changes the
\* dispatch at all, appends its function to the pending queue.
C33_ResolvedMapMonotone ==
    [][/\ \A tpe \in Types :
             functions[tpe] # 0 => functions'[tpe] = functions[tpe]
       /\ functions' # functions =>
             \E t \in Storing :
                 /\ frame[t].op = "get"
                 /\ functions' = [functions EXCEPT ![frame[t].tpe] = frame[t].func]
       /\ \A t \in Threads :
             (frame[t].op = "register" /\ pc'[t] # pc[t] /\ pc[t] # "idle") =>
                 /\ functions' = functions
                 /\ lazy_registrations' \in
                       {lazy_registrations,
                        Append(lazy_registrations, frame[t].func)}]_vars

\* a get raised for a duplicate, a later register returned and the function
\* resolved first is still the one of its type
C33_Witness ==
    /\ reported # {}
    /\ \E tpe \in Types : functions[tpe] # 0 /\ functions[tpe] \notin reported
    /\ \E t \in Threads :
          /\ frame[t].op = "register" /\ pc[t] = "idle"
          /\ \A f \in reported : f < frame[t].func
    /\ lazy_registrations # <<>>

-----------------------------------------------------------------------------
(* Further properties of the declarations, checked under SpecDeclare *)

\* the outcomes of every query on the interface, in the given registry
QueriesOn(impls, interface) ==
    [q \in ConstraintLists(weight_class) \X BOOLEAN |->
        MaybeProvide(impls, interface, q[1], q[2])]

\* C34: a register_implementation call for an interface leaves the set of
\* known interfaces as it is, and the node list and the query results of
\* every other interface; for an interface that was not registered it
\* changes nothing at all.
C34_OnlyItsInterfaceChanges ==
    [][(last'.op = "implements" /\ registered' # registered) =>
          /\ DOMAIN implementations' = DOMAIN implementations
          /\ \A i \in DOMAIN implementations :
                i # last'.interface =>
                   /\ implementations'[i] = implementations[i]
                   /\ QueriesOn(implementations', i) = QueriesOn(implementations, i)
          /\ last'.interface \notin DOMAIN implementations =>
                implementations' = implementations]_vars

\* an implementation was added to an interface while the other interface
\* holds a node
C34_Witness ==
    /\ last.op = "implements"
    /\ last.outcome = Returned(<<>>)
    /\ last.interface \in DOMAIN implementations
    /\ \E n \in Range(Nodes(last.interface)) : n.dependency = last.dependency
    /\ \E i \in DOMAIN implementations :
          i # last.interface /\ Nodes(i) # <<>>

-----------------------------------------------------------------------------
(* Further properties of the Interface Registry, checked under Spec *)

\* what query_all(interface, []) returns in the given registry; nothing for an
\* interface that is not known
AllOf(impls, interface) ==
    IF interface \in DOMAIN impls
    THEN MaybeProvide(impls, interface, <<>>, TRUE).value
    ELSE <<>>

\* C35: query_all(I, []) returns the handles of the register_implementation
\* calls for I that took effect since the last register call for I, the
\* handle of each call once: none is lost, none is returned twice, none is
\* returned under another interface.
C35_AllIsWhatWasRegistered ==
    /\ \A i \in Interfaces :
          /\ Range(AllOf(implementations, i)) = {c[2] : c \in {a \in accepted : a[1] = i}}
          /\ \A a, b \in 1..Len(AllOf(implementations, i)) :
                AllOf(implementations, i)[a] = AllOf(implementations, i)[b] => a = b
    /\ (QueriedAll /\ last.constraints = <<>>) =>
          last.outcome.value = AllOf(implementations, last.interface)

\* query_all(I, []) returned the second implementation alone: the first one
\* is in no list any more and the third has a predicate without weight
C35_Witness ==
    /\ QueriedAll /\ last.constraints = <<>>
    /\ last.outcome.value = <<2>>
    /\ registered = 3
    /\ 3 \in unweighted /\ 1 \notin unweighted
    /\ NodesHolding(1) = {}
    /\ DOMAIN implementations = Interfaces

\* C36: on a known interface the single and the all query with the same
\* constraints agree: the single query finds nothing iff the all query
\* returns the empty list; the handle it returns is the first of the all
\* query; and when it ends in Conflict the all query returns at least two
\* handles, the first two of tied weight.
C36_SingleAgreesWithAll ==
    Queried =>
        LET i == last.interface
            single == MaybeProvide(implementations, i, last.constraints, FALSE)
            all == MaybeProvide(implementations, i, last.constraints, TRUE).value
        IN /\ last.outcome \in {single, Returned(all)}
           /\ single = NotProvided <=> all = <<>>
           /\ single.kind = "return" => (all # <<>> /\ single.value = <<all[1]>>)
           /\ single = Conflict =>
                 /\ Len(all) >= 2
                 /\ Tied(NodeOf(i, all[1]), NodeOf(i, all[2]))
           /\ single.kind = "raise" => single = Conflict

\* a single query with a constraint ended in Conflict where the all query
\* returns two of the three nodes
C36_Witness ==
    /\ QueriedSingle
    /\ last.outcome = Conflict
    /\ last.constraints # <<>>
    /\ Len(Nodes(last.interface)) = 3
    /\ Len(MaybeProvide(implementations, last.interface, last.constraints, TRUE).value) = 2

-----------------------------------------------------------------------------
(* The Interface Registry and its clone.

   InterfaceProvider.clone builds a new provider whose __implementations is a
   new dict holding value.copy() of every list. The copies hold the very
   node objects of the original; a node is written to only before it is
   inserted (register_implementation sets same_weight_as_left on the new node
   alone), so the nodes are compared by value. The lists are objects of their
   own: provider.same holds the interfaces whose list in the clone is the
   list object of the original, and an insert into such a list shows on both
   sides. register assigns a fresh list on the side it is called on. *)

\* the number of register_implementation calls on either side
MaxCloneCalls == 2

\* the list of every interface handed over as it is, with no value.copy()
SameListsShared(impls) == DOMAIN impls

\* the interfaces whose list the clone shares with the original: value.copy()
\* makes a new list for each
SameLists(impls) == {}

\* InterfaceProvider.clone
Clone ==
    /\ ~provider.cloned
    /\ provider' = [cloned |-> TRUE,
                    implementations |->
                        [key \in DOMAIN implementations |-> implementations[key]],
                    same |-> SameLists(implementations)]
    /\ UNCHANGED provider_vars

\* InterfaceProvider.register on the original
OriginalRegister(interface) ==
    /\ Register(interface)
    /\ provider' = [provider EXCEPT !.same = @ \ {interface}]

\* InterfaceProvider.register_implementation on the original
OriginalRegisterImplementation(interface, predicates) ==
    /\ registered < MaxCloneCalls
    /\ RegisterImplementation(interface, predicates)
    /\ provider' =
          IF interface \in provider.same
          THEN [provider EXCEPT
                   !.implementations[interface] = implementations'[interface]]
          ELSE provider

\* InterfaceProvider.register on the clone
CloneRegister(interface) ==
    /\ provider.cloned
    /\ provider' =
          [provider EXCEPT
              !.implementations =
                  [i \in DOMAIN @ \cup {interface} |->
                      IF i = interface THEN <<>> ELSE @[i]],
              !.same = @ \ {interface}]
    /\ UNCHANGED provider_vars

\* InterfaceProvider.register_implementation on the clone, for a new dependency
CloneRegisterImplementation(interface, predicates) ==
    LET dependency == registered + 1
        registry == ProviderRegistered(provider.implementations, interface,
                                       dependency, predicates)
    IN /\ provider.cloned
       /\ registered < MaxCloneCalls
       /\ registered' = dependency
       /\ provider' = [provider EXCEPT !.implementations = registry]
       /\ implementations' =
             IF interface \in provider.same
             THEN [implementations EXCEPT ![interface] = registry[interface]]
             ELSE implementations
       /\ UNCHANGED <<weight_class, last, unweighted, weight_calls, accepted>>

InitClone ==
    /\ InitProvider
    /\ weight_class \in {"NeutralWeight", "Weight"}
    /\ InitDispatch

NextClone ==
    \/ \E interface \in Interfaces :
          OriginalRegister(interface) /\ UNCHANGED dispatch_vars
    \/ \E interface \in Interfaces, predicates \in PredicateLists(weight_class) :
          /\ OriginalRegisterImplementation(interface, predicates)
          /\ UNCHANGED dispatch_vars
    \/ Clone /\ UNCHANGED dispatch_vars
    \/ \E interface \in Interfaces :
          CloneRegister(interface) /\ UNCHANGED dispatch_vars
    \/ \E interface \in Interfaces, predicates \in PredicateLists(weight_class) :
          /\ CloneRegisterImplementation(interface, predicates)
          /\ UNCHANGED dispatch_vars

SpecClone == InitClone /\ [][NextClone]_vars

\* C37: the provider that clone returns holds the interfaces and the ordered
\* node lists of the original, clone leaves the original as it was, and from
\* then on a register or a register_implementation changes the lists, and so
\* the answer to every query, of the side it was called on alone
C37_CloneIsIndependent ==
    [][/\ (~provider.cloned /\ provider'.cloned) =>
              /\ provider'.implementations = implementations
              /\ implementations' = implementations
       /\ provider.cloned =>
              /\ provider'.cloned
              /\ \/ implementations' = implementations
                 \/ provider'.implementations = provider.implementations
              /\ \A interface \in DOMAIN implementations :
                    provider'.implementations # provider.implementations =>
                       /\ interface \in DOMAIN implementations'
                       /\ QueriesOn(implementations', interface)
                             = QueriesOn(implementations, interface)
              /\ \A interface \in DOMAIN provider.implementations :
                    implementations' # implementations =>
                       /\ interface \in DOMAIN provider'.implementations
                       /\ QueriesOn(provider'.implementations, interface)
                             = QueriesOn(provider.implementations, interface)]_vars

\* after the clone was made each side received a register_implementation for
\* the same interface: the original holds the one node and the clone the other
C37_Witness ==
    /\ provider.cloned
    /\ \E interface \in DOMAIN implementations \cap DOMAIN provider.implementations :
          /\ Len(implementations[interface]) = 1
          /\ Len(provider.implementations[interface]) = 1
          /\ implementations[interface][1].dependency
                # provider.implementations[interface][1].dependency

====
